---- MODULE Spec2Model ----
(***************************************************************************)
(* Model of lighthouse-core/lib/i18n/i18n.js: the message-instance         *)
(* registry (_icuMessageInstanceMap), the id function returned by          *)
(* createMessageInstanceIdFn, the instance-id codec (the two regular       *)
(* expressions), resolution of an instance id for a locale, and the        *)
(* document walk replaceIcuMessageInstanceIds.                             *)
(*                                                                         *)
(* Strings are sequences of atoms.  An atom is either one character the    *)
(* code's regular expressions tell apart (space, '|', '#', a digit, a line *)
(* terminator, ']', a quote, ...) or a run of characters none of them      *)
(* tells apart (letters such as "title", or a file name such as "a.js").   *)
(***************************************************************************)
EXTENDS Integers, Sequences, FiniteSets, TLC

VARIABLES
  _icuMessageInstanceMap, \* i18n.js:173, Map<icuMessageId, IcuMessageInstance[]>
  last,                   \* the last call made on the module: its inputs and its outcome
  codec,                  \* a string, how it was made, and what the patterns make of it
  issued                  \* the calls of the id functions so far, in order, with their outcomes

vars == <<_icuMessageInstanceMap, last, codec, issued>>

(***************************************************************************)
(* Bounds of the model.                                                    *)
(***************************************************************************)
\* instances the registry holds at most, all keys together
MaxInstances == 2
\* pieces a string or a message key of CodecSpec is built from, at most
MaxPieces == 3
\* largest instance index CodecSpec encodes
MaxIndex == 10
\* calls of the id functions in a history of RaceSpec, at most
MaxCalls == 3
\* subtags of a locale tag lookupLocale is called with, at most
MaxSubtags == 3
\* characters of a message bakePlaceholders is given, at most
MaxMessageLen == 5
\* properties of a path _formatPathAsString is given, at most
MaxPathLen == 3
\* largest number _preprocessMessageValues is given for a placeholder
MaxValue == 5240

(***************************************************************************)
(* Characters.                                                             *)
(***************************************************************************)
SP == " "
Digits == <<"0", "1", "2", "3", "4", "5", "6", "7", "8", "9">>

IsDigit(c) == \E d \in 1..10 : Digits[d] = c

DigitValue(c) == (CHOOSE d \in 1..10 : Digits[d] = c) - 1

\* what '.' of a JavaScript regular expression (no s flag) does not match
\* (LF, CR, U+2028, U+2029)
IsLineTerminator(c) == c \in {"\n", "\r", "LS", "PS"}

\* `${n}` of a non-negative integer: its decimal digits, no leading zero
RECURSIVE ToDecimal(_)
ToDecimal(n) ==
  IF n < 10 THEN <<Digits[n + 1]>>
  ELSE ToDecimal(n \div 10) \o <<Digits[(n % 10) + 1]>>

\* Number(s) of a string of decimal digits
RECURSIVE Number(_)
Number(s) ==
  IF Len(s) = 0 THEN 0
  ELSE 10 * Number(SubSeq(s, 1, Len(s) - 1)) + DigitValue(s[Len(s)])

\* s has the atoms of lit at positions i, i+1, ...
HasAt(s, i, lit) ==
  /\ i >= 1
  /\ i + Len(lit) - 1 <= Len(s)
  /\ \A j \in 1..Len(lit) : s[i + j - 1] = lit[j]

\* \d$ in place of \d+$: one digit, the last of s
OneDigitToEnd(s, i) == i >= 1 /\ i = Len(s) /\ IsDigit(s[i])

\* \d+$ from position i: a non-empty run of digits up to the end of s
DigitsToEnd(s, i) ==
  /\ i >= 1
  /\ i <= Len(s)
  /\ \A j \in i..Len(s) : IsDigit(s[j])

\* .* over positions i..j-1: no line terminator among them
DotStar(s, i, j) == \A n \in i..(j - 1) : ~IsLineTerminator(s[n])

(***************************************************************************)
(* The two patterns, i18n.js:17-19.                                        *)
(***************************************************************************)
BarSep == <<" ", "|", " ">>
HashSep == <<" ", "#", " ">>

\* / # \d+$/.test(s)
QuickWithOneDigit(s) ==
  \E q \in 1..Len(s) : HasAt(s, q, HashSep) /\ OneDigitToEnd(s, q + 3)

MESSAGE_INSTANCE_ID_QUICK_REGEX(s) ==
  \E q \in 1..Len(s) : HasAt(s, q, HashSep) /\ DigitsToEnd(s, q + 3)

\* The matches of /(.* \| .*) # (\d+)$/ in s: <<b, p, q>> where the match
\* starts at b, the first .* is s[b..p-1], " | " is at p, the second .* is
\* s[p+3..q-1], " # " is at q and the digits run from q+3 to the end.
RegexMatches(s) ==
  LET P == {p \in 1..Len(s) : HasAt(s, p, BarSep)}
      Q == {q \in 1..Len(s) : HasAt(s, q, HashSep) /\ DigitsToEnd(s, q + 3)}
  IN  { m \in (1..Len(s)) \X P \X Q :
          /\ m[1] <= m[2]
          /\ m[2] + 3 <= m[3]
          /\ DotStar(s, m[1], m[2])
          /\ DotStar(s, m[2] + 3, m[3]) }

\* The match a backtracking matcher reports: the leftmost start, then the
\* longest first .*, then the longest second .*
Preferred(M) ==
  CHOOSE m \in M :
    \A n \in M :
      \/ m[1] < n[1]
      \/ m[1] = n[1] /\ m[2] > n[2]
      \/ m[1] = n[1] /\ m[2] = n[2] /\ m[3] >= n[3]

FirstMatch(s) == Preferred(RegexMatches(s))

\* MESSAGE_INSTANCE_ID_REGEX.test(s)
MESSAGE_INSTANCE_ID_REGEX(s) == RegexMatches(s) # {}

\* s.match(MESSAGE_INSTANCE_ID_REGEX): the two groups, when s matches
GroupsOf(s, m) ==
  [icuMessageId |-> SubSeq(s, m[1], m[3] - 1),
   icuMessageInstanceIndex |-> SubSeq(s, m[3] + 3, Len(s))]

RegexGroups(s) == GroupsOf(s, FirstMatch(s))

\* i18n.js:299-302
isIcuMessage(s) ==
  MESSAGE_INSTANCE_ID_QUICK_REGEX(s) /\ MESSAGE_INSTANCE_ID_REGEX(s)

\* i18n.js:288, `${icuMessageId} # ${indexOfInstance}`
EncodeInstanceId(icuMessageId, indexOfInstance) ==
  icuMessageId \o HashSep \o ToDecimal(indexOfInstance)

(***************************************************************************)
(* Messages.  A message is held as MessageParser.parse gives it: a         *)
(* sequence of elements, each a piece of text or an argument {id} with an  *)
(* optional format style and, for a plural, its option messages.           *)
(***************************************************************************)
Text(v) ==
  [type |-> "messageTextElement", value |-> v, id |-> "", style |-> "", options |-> <<>>]

Arg(id, style) ==
  [type |-> "argumentElement", value |-> <<>>, id |-> id, style |-> style, options |-> <<>>]

Plural(id, options) ==
  [type |-> "argumentElement", value |-> <<>>, id |-> id, style |-> "", options |-> options]

\* i18n.js:38-87, in declaration order
UIStrings ==
  << [key |-> <<"ms">>,
      message |-> <<Arg("timeInMs", "milliseconds"), Text(<<"NBSP", "ms">>)>>],
     [key |-> <<"seconds">>,
      message |-> <<Arg("timeInMs", "seconds"), Text(<<"NBSP", "s">>)>>],
     [key |-> <<"displayValueByteSavings">>,
      message |-> <<Text(<<"Potential", SP, "savings", SP, "of", SP>>),
                    Arg("wastedBytes", "bytes"), Text(<<"NBSP", "KB">>)>>],
     [key |-> <<"displayValueMsSavings">>,
      message |-> <<Text(<<"Potential", SP, "savings", SP, "of", SP>>),
                    Arg("wastedMs", "milliseconds"), Text(<<"NBSP", "ms">>)>>],
     [key |-> <<"columnURL">>, message |-> <<Text(<<"URL">>)>>],
     [key |-> <<"columnSize">>, message |-> <<Text(<<"Size">>)>>],
     [key |-> <<"columnCacheTTL">>, message |-> <<Text(<<"Cache", SP, "TTL">>)>>],
     [key |-> <<"columnWastedBytes">>, message |-> <<Text(<<"Potential", SP, "Savings">>)>>],
     [key |-> <<"columnWastedMs">>, message |-> <<Text(<<"Potential", SP, "Savings">>)>>],
     [key |-> <<"columnTimeSpent">>, message |-> <<Text(<<"Time", SP, "Spent">>)>>],
     [key |-> <<"columnLocation">>, message |-> <<Text(<<"Location">>)>>],
     [key |-> <<"columnResourceType">>, message |-> <<Text(<<"Resource", SP, "Type">>)>>],
     [key |-> <<"columnRequests">>, message |-> <<Text(<<"Requests">>)>>],
     [key |-> <<"columnTransferSize">>, message |-> <<Text(<<"Transfer", SP, "Size">>)>>],
     [key |-> <<"columnName">>, message |-> <<Text(<<"Name">>)>>],
     [key |-> <<"totalResourceType">>, message |-> <<Text(<<"Total">>)>>],
     [key |-> <<"documentResourceType">>, message |-> <<Text(<<"Document">>)>>],
     [key |-> <<"scriptResourceType">>, message |-> <<Text(<<"Script">>)>>],
     [key |-> <<"stylesheetResourceType">>, message |-> <<Text(<<"Stylesheet">>)>>],
     [key |-> <<"imageResourceType">>, message |-> <<Text(<<"Image">>)>>],
     [key |-> <<"mediaResourceType">>, message |-> <<Text(<<"Media">>)>>],
     [key |-> <<"fontResourceType">>, message |-> <<Text(<<"Font">>)>>],
     [key |-> <<"otherResourceType">>, message |-> <<Text(<<"Other">>)>>],
     [key |-> <<"thirdPartyResourceType">>, message |-> <<Text(<<"Third-party">>)>> ] >>

(***************************************************************************)
(* Values.  A scalar is a number (a fraction num/den, den >= 1), NaN, a    *)
(* string or undefined; `values` is undefined or an object, held as its    *)
(* own properties in insertion order.                                      *)
(***************************************************************************)
Num(n) == [t |-> "number", num |-> n, den |-> 1, s |-> <<>>]
Frac(n, d) == [t |-> "number", num |-> n, den |-> d, s |-> <<>>]
NaN == [t |-> "NaN", num |-> 0, den |-> 1, s |-> <<>>]
Str(s) == [t |-> "string", num |-> 0, den |-> 1, s |-> s]
UndefinedScalar == [t |-> "undefined", num |-> 0, den |-> 1, s |-> <<>>]

Undefined == [t |-> "undefined", e |-> <<>>]
Null == [t |-> "null", e |-> <<>>]
Obj(e) == [t |-> "object", e |-> e]
Prop(k, v) == [k |-> k, v |-> v]

\* own property names of an object
Keys(o) == {o.e[i].k : i \in 1..Len(o.e)}

\* k in o
HasKey(o, k) == \E i \in 1..Len(o.e) : o.e[i].k = k

\* o[k], for k in o
Get(o, k) == o.e[CHOOSE i \in 1..Len(o.e) : o.e[i].k = k].v

\* o[k] = v: in place when k is a property already, appended otherwise
Put(o, k, v) ==
  IF HasKey(o, k)
    THEN Obj([i \in 1..Len(o.e) |-> IF o.e[i].k = k THEN Prop(k, v) ELSE o.e[i]])
    ELSE Obj(Append(o.e, Prop(k, v)))

\* lodash.isequal on two scalars: SameValueZero, so NaN equals NaN;
\* fractions are compared by value
ScalarEqual(a, b) ==
  /\ a.t = b.t
  /\ a.t = "number" => a.num * b.den = b.num * a.den
  /\ a.t = "string" => a.s = b.s

\* i18n.js:9 and 280, lodash.isequal on two `values`: both undefined, or
\* objects with the same property names and equal values, in any order
isDeepEqual(a, b) ==
  /\ a.t = b.t
  /\ a.t = "object" =>
       /\ Len(a.e) = Len(b.e)
       /\ \A i \in 1..Len(a.e) :
            /\ HasKey(b, a.e[i].k)
            /\ ScalarEqual(a.e[i].v, Get(b, a.e[i].k))

(***************************************************************************)
(* Producers: the (filename, fileStrings) pairs createMessageInstanceIdFn  *)
(* is called with.  File names are relative to LH_ROOT already and carry   *)
(* the platform's separator.                                               *)
(***************************************************************************)
Title == <<Text(<<"Title">>)>>
Ratio == <<Arg("x", ""), Text(<<SP, "of", SP>>), Arg("y", "")>>
Address == <<Text(<<"Address">>)>>
Undeclared == <<Text(<<"Nope">>)>>
MsMessage == UIStrings[1].message
UrlMessage == UIStrings[5].message

\* __filename of i18n.js, relative to LH_ROOT
ThisFilename == <<"lighthouse-core", "/", "lib", "/", "i18n", "/", "i18n.js">>

Producers ==
  << [filename |-> <<"lighthouse-core", "/", "audits", "/", "a.js">>,
      fileStrings |-> << [key |-> <<"title">>, message |-> Title],
                         [key |-> <<"displayValue">>, message |-> Ratio],
                         [key |-> <<"url">>, message |-> UrlMessage] >>],
     [filename |-> <<"lighthouse-core", "\\", "audits", "\\", "a.js">>,
      fileStrings |-> << [key |-> <<"columnURL">>, message |-> Address],
                         [key |-> <<"title">>, message |-> Title] >>] >>

\* the messages a caller passes to an id function
MessageInputs == <<Title, Ratio, MsMessage, Address, UrlMessage, Undeclared>>

\* the values a caller passes to an id function
ValueInputs ==
  << Undefined,
     Obj(<<Prop("x", Num(1)), Prop("y", Num(2))>>),
     Obj(<<Prop("y", Num(2)), Prop("x", Num(1))>>),
     Obj(<<Prop("timeInMs", Num(1234))>>) >>

\* index of the first strings entry named key, 0 when there is none
IndexOfKey(strings, key) ==
  IF \E i \in 1..Len(strings) : strings[i].key = key
    THEN CHOOSE i \in 1..Len(strings) :
           /\ strings[i].key = key
           /\ \A j \in 1..(i - 1) : strings[j].key # key
    ELSE 0

\* those entries of strings whose name is not a name of other
RECURSIVE NotIn(_, _)
NotIn(strings, other) ==
  IF strings = <<>> THEN <<>>
  ELSE (IF IndexOfKey(other, Head(strings).key) = 0 THEN <<Head(strings)>> ELSE <<>>)
         \o NotIn(Tail(strings), other)

\* i18n.js:262, {...UIStrings, ...fileStrings}: the shared names keep their
\* place and take the producer's text on a collision; new names follow
mergedStrings(fileStrings) ==
  [i \in 1..Len(UIStrings) |->
     IF IndexOfKey(fileStrings, UIStrings[i].key) = 0
       THEN UIStrings[i]
       ELSE fileStrings[IndexOfKey(fileStrings, UIStrings[i].key)]]
    \o NotIn(fileStrings, UIStrings)

\* a find that takes the first name when no text is icuMessage
FirstKeyname(merged, icuMessage) ==
  IF \E i \in 1..Len(merged) : merged[i].message = icuMessage
    THEN merged[CHOOSE i \in 1..Len(merged) :
                  /\ merged[i].message = icuMessage
                  /\ \A j \in 1..(i - 1) : merged[j].message # icuMessage].key
    ELSE merged[1].key

\* i18n.js:272, Object.keys(mergedStrings).find(key => mergedStrings[key] === icuMessage):
\* the first name whose text is icuMessage, <<>> (undefined) when there is none
RECURSIVE FindKeyname(_, _)
FindKeyname(merged, icuMessage) ==
  IF merged = <<>> THEN <<>>
  ELSE IF Head(merged).message = icuMessage THEN Head(merged).key
  ELSE FindKeyname(Tail(merged), icuMessage)

\* i18n.js:276, path.relative(LH_ROOT, f).replace(/\\/g, '/')
unixStyleFilename(f) == [i \in 1..Len(f) |-> IF f[i] = "\\" THEN "/" ELSE f[i]]

\* an id that always names the file of the id function
RegisteringFileId(idFn, keyname) ==
  unixStyleFilename(idFn.filename) \o BarSep \o keyname

\* i18n.js:275-277
MessageIdOf(idFn, keyname) ==
  LET filenameToLookup ==
        IF IndexOfKey(idFn.fileStrings, keyname) # 0
          THEN idFn.filename ELSE ThisFilename
  IN  unixStyleFilename(filenameToLookup) \o BarSep \o keyname

\* i18n.js:260-292: the id function of a producer is the closure over
\* filename, fileStrings and mergedStrings
createMessageInstanceIdFn(filename, fileStrings) ==
  [filename |-> filename, fileStrings |-> fileStrings,
   mergedStrings |-> mergedStrings(fileStrings)]

IdFns ==
  [p \in 1..Len(Producers) |->
     createMessageInstanceIdFn(Producers[p].filename, Producers[p].fileStrings)]

(***************************************************************************)
(* The registry, i18n.js:173 and 278-286.                                  *)
(***************************************************************************)
\* _icuMessageInstanceMap.get(id) || []
MapGet(map, id) == IF id \in DOMAIN map THEN map[id] ELSE <<>>

\* a set that forgets the other keys
SetAlone(map, id, instances) == [k \in {id} |-> instances]

\* _icuMessageInstanceMap.set(id, instances)
MapSet(map, id, instances) ==
  [k \in (DOMAIN map) \cup {id} |-> IF k = id THEN instances ELSE map[k]]

\* instances the registry holds, all keys together
RECURSIVE SumLen(_, _)
SumLen(map, ids) ==
  IF ids = {} THEN 0
  ELSE LET id == CHOOSE x \in ids : TRUE
       IN  Len(map[id]) + SumLen(map, ids \ {id})

Size(map) == SumLen(map, DOMAIN map)

\* a findIndex that finds nothing
FindNothing(instances, values) == -1

\* a findIndex that takes the first instance when none is equal
FindFirst(instances, values) ==
  IF \E i \in 1..Len(instances) : isDeepEqual(instances[i].values, values)
    THEN (CHOOSE i \in 1..Len(instances) :
            /\ isDeepEqual(instances[i].values, values)
            /\ \A j \in 1..(i - 1) : ~isDeepEqual(instances[j].values, values)) - 1
    ELSE IF instances = <<>> THEN -1 ELSE 0

\* i18n.js:280, findIndex(inst => isDeepEqual(inst.values, values)), 0-based, -1 for none
findIndex(instances, values) ==
  IF \E i \in 1..Len(instances) : isDeepEqual(instances[i].values, values)
    THEN (CHOOSE i \in 1..Len(instances) :
            /\ isDeepEqual(instances[i].values, values)
            /\ \A j \in 1..(i - 1) : ~isDeepEqual(instances[j].values, values)) - 1
    ELSE -1

\* a registration that pushes the instance also when it is found
AppendAlways(map, icuMessageId, icuMessage, values, icuMessageInstances, found) ==
  [error |-> "none",
   map |-> MapSet(map, icuMessageId,
                  Append(icuMessageInstances,
                         [icuMessageId |-> icuMessageId, icuMessage |-> icuMessage,
                          values |-> values])),
   icuMessageId |-> icuMessageId,
   result |-> EncodeInstanceId(icuMessageId,
                               IF found = -1 THEN Len(icuMessageInstances) ELSE found)]

\* i18n.js:278-288, once the message is located as keyname of icuMessageId
FindOrAppend(map, icuMessageId, icuMessage, values, icuMessageInstances, found) ==
  IF found = -1
    THEN [error |-> "none",
          map |-> MapSet(map, icuMessageId,
                         Append(icuMessageInstances,
                                [icuMessageId |-> icuMessageId,
                                 icuMessage |-> icuMessage,
                                 values |-> values])),
          icuMessageId |-> icuMessageId,
          result |-> EncodeInstanceId(icuMessageId, Len(icuMessageInstances))]
    ELSE [error |-> "none",
          map |-> MapSet(map, icuMessageId, icuMessageInstances),
          icuMessageId |-> icuMessageId,
          result |-> EncodeInstanceId(icuMessageId, found)]

InstancesOf(map, icuMessageId, icuMessage, values, icuMessageInstances) ==
  FindOrAppend(map, icuMessageId, icuMessage, values, icuMessageInstances,
               findIndex(icuMessageInstances, values))

Located(map, icuMessageId, icuMessage, values) ==
  InstancesOf(map, icuMessageId, icuMessage, values, MapGet(map, icuMessageId))

Keyed(map, idFn, icuMessage, values, keyname) ==
  IF keyname = <<>>
    THEN [error |-> "CouldNotLocate", map |-> map, icuMessageId |-> <<>>, result |-> <<>>]
    ELSE Located(map, MessageIdOf(idFn, keyname), icuMessage, values)

\* i18n.js:271-289: what a call of the id function does to the registry and
\* what it returns or throws
getMessageInstanceIdFn(map, idFn, icuMessage, values) ==
  Keyed(map, idFn, icuMessage, values, FindKeyname(idFn.mergedStrings, icuMessage))

(***************************************************************************)
(* The locale catalogs (./locales.js): locale -> icuMessageId -> message.  *)
(***************************************************************************)
IdTitle == unixStyleFilename(Producers[1].filename) \o BarSep \o <<"title">>
IdDisplayValue == unixStyleFilename(Producers[1].filename) \o BarSep \o <<"displayValue">>
IdColumnURL == unixStyleFilename(Producers[1].filename) \o BarSep \o <<"columnURL">>
IdMs == ThisFilename \o BarSep \o <<"ms">>

Entry(id, message) == [id |-> id, message |-> message]

LocaleNames == {"en", "de", "de-CH", "en-XA"}

LOCALES ==
  [l \in LocaleNames |->
     CASE l = "en" ->
            << Entry(IdTitle, Title), Entry(IdDisplayValue, Ratio), Entry(IdMs, MsMessage) >>
       [] l = "de" ->
            << Entry(IdTitle, <<Text(<<"Titel">>)>>),
               Entry(IdDisplayValue, <<Arg("x", ""), Text(<<SP, "von", SP>>), Arg("y", "")>>) >>
       [] l = "de-CH" ->
            << Entry(IdTitle, <<Text(<<"Titel">>)>>) >>
       [] l = "en-XA" ->
            << Entry(IdMs, <<Text(<<"[">>), Arg("timeInMs", "milliseconds"),
                             Text(<<"NBSP", "ms", "]">>)>>) >> ]

\* the locales a caller asks for; "xx" has no catalog
LocaleInputs == <<"en", "de", "en-XA", "xx">>

\* the locales replaceIcuMessageInstanceIds is called with
WalkLocales == <<"en", "xx">>

\* localeMessages[icuMessageId] && localeMessages[icuMessageId].message, <<>> when absent
CatalogMessage(localeMessages, icuMessageId) ==
  IF \E i \in 1..Len(localeMessages) : localeMessages[i].id = icuMessageId
    THEN localeMessages[CHOOSE i \in 1..Len(localeMessages) :
                          localeMessages[i].id = icuMessageId].message
    ELSE <<>>

(***************************************************************************)
(* _preprocessMessageValues, i18n.js:132-163.                              *)
(***************************************************************************)
\* the value arithmetic is done on: ToNumber of a scalar
IsDigits(s) == \A i \in 1..Len(s) : IsDigit(s[i])

ToNumber(v) ==
  CASE v.t = "number" -> v
    [] v.t = "string" /\ IsDigits(v.s) -> Num(Number(v.s))
    [] OTHER -> NaN

\* Math.round of the fraction n/d, d > 0: the nearest integer, halves up
MathRound(n, d) == (2 * n + d) \div (2 * d)

\* Math.round(x / 10) * 10, x a number or NaN
RoundToTens(x) ==
  IF x.t = "NaN" THEN NaN ELSE Num(MathRound(x.num, 10 * x.den) * 10)

\* Math.round(x / 100) / 10
ToSeconds(x) ==
  IF x.t = "NaN" THEN NaN ELSE Frac(MathRound(x.num, 100 * x.den), 10)

\* x / 1024
ToKilobytes(x) ==
  IF x.t = "NaN" THEN NaN ELSE Frac(x.num, 1024 * x.den)

\* JSON.parse(JSON.stringify(values)) with values = {} when undefined:
\* properties whose value is undefined are dropped
RECURSIVE DropUndefined(_)
DropUndefined(e) ==
  IF e = <<>> THEN <<>>
  ELSE (IF Head(e).v.t = "undefined" THEN <<>> ELSE <<Head(e)>>) \o DropUndefined(Tail(e))

JsonClone(values) == IF values.t = "null" THEN Null ELSE Obj(DropUndefined(values.e))

\* clonedValues[id], undefined when id is no property
GetOrUndefined(o, id) == IF HasKey(o, id) THEN Get(o, id) ELSE UndefinedScalar

\* the element is one the pass of this style rewrites (i18n.js:146, 152, 158)
InPass(el, style) ==
  /\ el.type = "argumentElement"
  /\ el.style = style
  /\ (style = "seconds" => el.id = "timeInMs")

\* what the pass of this style makes of the number x
Converted(style, x) ==
  CASE style = "milliseconds" -> RoundToTens(x)
    [] style = "seconds" -> ToSeconds(x)
    [] OTHER -> ToKilobytes(x)

\* i18n.js:132-133: the two objects of a call, the caller's and the clone
Objects(values) == [values |-> values, clonedValues |-> JsonClone(values)]

\* an assignment that lands in the caller's object as well
AssignedInPlace(objects, id, v) ==
  [values |-> Put(objects.values, id, v), clonedValues |-> Put(objects.clonedValues, id, v)]

\* i18n.js:148, 154, 160: clonedValues[el.id] = v
Assigned(objects, id, v) ==
  [values |-> objects.values, clonedValues |-> Put(objects.clonedValues, id, v)]

\* one of the three passes over parsed.elements (i18n.js:145-160): every
\* element of the style, in order, rewrites clonedValues[el.id]
\* element writes clonedValues[el.id]; values is the object the caller handed
\* over, which the instance in the registry holds as well
RECURSIVE StylePass(_, _, _)
StylePass(elements, style, objects) ==
  IF elements = <<>> THEN objects
  ELSE IF InPass(Head(elements), style)
    THEN StylePass(Tail(elements), style,
                   Assigned(objects, Head(elements).id,
                            Converted(style,
                                      ToNumber(GetOrUndefined(objects.clonedValues,
                                                              Head(elements).id)))))
    ELSE StylePass(Tail(elements), style, objects)

\* i18n.js:136-142: the first top-level argument element whose id is not in
\* values, "" when every one is
RECURSIVE FirstMissing(_, _)
FirstMissing(elements, values) ==
  IF elements = <<>> THEN ""
  ELSE IF /\ Head(elements).type = "argumentElement"
          /\ Head(elements).id # ""
          /\ ~HasKey(values, Head(elements).id)
    THEN Head(elements).id
    ELSE FirstMissing(Tail(elements), values)

\* what the call returns (values) or throws, and the caller's object as the
\* call leaves it (argument)
Outcome(error, id, objects) ==
  [error |-> error, id |-> id, values |-> objects.clonedValues,
   argument |-> objects.values]

Preprocessed(icuMessage, objects, missing) ==
  IF missing # ""
    THEN Outcome("MissingValue", missing, objects)
    ELSE Outcome("none", "",
                 StylePass(icuMessage, "bytes",
                   StylePass(icuMessage, "seconds",
                     StylePass(icuMessage, "milliseconds", objects))))

\* i18n.js:137-139: there is an element whose id is looked for in values
HasArgument(elements) ==
  \E i \in 1..Len(elements) :
    elements[i].type = "argumentElement" /\ elements[i].id # ""

\* values = {} when undefined (values.e is empty then); `el.id in values`
\* throws a TypeError when values is null
_preprocessMessageValues(icuMessage, values) ==
  IF values.t = "null" /\ HasArgument(icuMessage)
    THEN Outcome("TypeError", "", Objects(values))
    ELSE Preprocessed(icuMessage, Objects(values), FirstMissing(icuMessage, values))

(***************************************************************************)
(* The formatting engine (intl-messageformat), as _formatIcuMessage uses   *)
(* it: new MessageFormat(message, locale, formats).format(values).         *)
(***************************************************************************)
DecimalSeparator(locale) == IF locale \in {"de", "de-DE"} THEN "," ELSE "."

\* a number of tenths, with one fraction digit
Tenths(tenths, locale) ==
  ToDecimal(tenths \div 10) \o <<DecimalSeparator(locale)>> \o <<Digits[(tenths % 10) + 1]>>

\* a number in the locale: one fraction digit for the seconds style
\* (i18n.js:97-101), none otherwise
FormatNumber(v, style, locale) ==
  IF style = "seconds"
    THEN Tenths(MathRound(10 * v.num, v.den), locale)
    ELSE ToDecimal(MathRound(v.num, v.den))

FormatScalar(v, style, locale) ==
  CASE v.t = "number" -> FormatNumber(v, style, locale)
    [] v.t = "string" -> v.s
    [] OTHER -> <<"NaN">>

\* the option of a plural the value selects: the one for exactly that
\* number, else the last one ("other")
SelectOption(options, v) ==
  IF \E i \in 1..Len(options) : v.t = "number" /\ v.den = 1 /\ options[i].n = v.num
    THEN options[CHOOSE i \in 1..Len(options) : options[i].n = v.num].message
    ELSE options[Len(options)].message

\* the text of two parts, or the error of the first that has one
Joined(here, rest) ==
  IF here.error # "none" THEN here
  ELSE IF rest.error # "none" THEN rest
  ELSE [error |-> "none", text |-> here.text \o rest.text]

\* format(values): the text, or the engine's error when an argument it
\* comes to has no property in values
RECURSIVE MessageFormat(_, _, _)
RECURSIVE FormatElement(_, _, _)
FormatElement(el, locale, values) ==
  CASE el.type = "messageTextElement" -> [error |-> "none", text |-> el.value]
    [] ~HasKey(values, el.id) -> [error |-> "FormatError", text |-> <<>>]
    [] el.options # <<>> ->
         MessageFormat(SelectOption(el.options, Get(values, el.id)), locale, values)
    [] OTHER ->
         [error |-> "none", text |-> FormatScalar(Get(values, el.id), el.style, locale)]

MessageFormat(message, locale, values) ==
  IF message = <<>> THEN [error |-> "none", text |-> <<>>]
  ELSE Joined(FormatElement(Head(message), locale, values),
              MessageFormat(Tail(message), locale, values))

(***************************************************************************)
(* _formatIcuMessage, i18n.js:184-215.  uiStringMessage = <<>> stands for  *)
(* an absent (or empty) backup message.                                    *)
(***************************************************************************)
Failure(error) == [error |-> error, formattedString |-> <<>>, icuMessage |-> <<>>]

\* i18n.js:212-214
Formatted(localeMessage, formatted) ==
  IF formatted.error # "none" THEN Failure(formatted.error)
  ELSE [error |-> "none", formattedString |-> formatted.text, icuMessage |-> localeMessage]

\* i18n.js:207-212
FormatWith(localeForMessageFormat, localeMessage, valuesForMessageFormat) ==
  IF valuesForMessageFormat.error # "none" THEN Failure(valuesForMessageFormat.error)
  ELSE Formatted(localeMessage,
                 MessageFormat(localeMessage, localeForMessageFormat,
                               valuesForMessageFormat.values))

\* i18n.js:202-209
FormatLocaleMessage(locale, localeMessage, values) ==
  IF localeMessage = <<>> THEN Failure("MessageNotFound")
  ELSE FormatWith(IF locale \in {"en-XA", "en-XL"} THEN "de-DE" ELSE locale,
                  localeMessage, _preprocessMessageValues(localeMessage, values))

\* a lookup that takes the message of the UIStrings before the catalog's
BackupFirst(catalog, uiStringMessage) ==
  IF uiStringMessage # <<>> THEN uiStringMessage ELSE catalog

\* a lookup without the fallback to the message of the UIStrings
CatalogOnly(catalog, uiStringMessage) == catalog

\* i18n.js:187-200
WithFallback(catalog, uiStringMessage) ==
  IF catalog = <<>> THEN uiStringMessage ELSE catalog

_formatIcuMessage(locale, icuMessageId, uiStringMessage, values) ==
  IF locale \notin DOMAIN LOCALES THEN Failure("UnsupportedLocale")
  ELSE FormatLocaleMessage(locale,
                           WithFallback(CatalogMessage(LOCALES[locale], icuMessageId),
                                        uiStringMessage),
                           values)

(***************************************************************************)
(* _resolveIcuMessageInstanceId, i18n.js:336-348, and getFormatted,        *)
(* i18n.js:309-315.                                                        *)
(***************************************************************************)
NoInstance == [icuMessageId |-> <<>>, icuMessage |-> <<>>, values |-> Undefined]

Thrown(error) ==
  [error |-> error, icuMessageInstance |-> NoInstance, formattedString |-> <<>>]

\* i18n.js:344-347
Resolved(icuMessageInstance, f) ==
  IF f.error # "none" THEN Thrown(f.error)
  ELSE [error |-> "none", icuMessageInstance |-> icuMessageInstance,
        formattedString |-> f.formattedString]

\* i18n.js:342-345; an index past the end gives undefined, and reading
\* .icuMessage of undefined throws a TypeError
ResolveInstance(icuMessageId, icuMessageInstances, index, locale) ==
  IF index >= Len(icuMessageInstances) THEN Thrown("TypeError")
  ELSE Resolved(icuMessageInstances[index + 1],
                _formatIcuMessage(locale, icuMessageId,
                                  icuMessageInstances[index + 1].icuMessage,
                                  icuMessageInstances[index + 1].values))

\* i18n.js:340-342
ResolveMatches(map, matches, locale) ==
  ResolveInstance(matches.icuMessageId, MapGet(map, matches.icuMessageId),
                  Number(matches.icuMessageInstanceIndex), locale)

_resolveIcuMessageInstanceId(map, icuMessageInstanceId, locale) ==
  IF ~MESSAGE_INSTANCE_ID_REGEX(icuMessageInstanceId) THEN Thrown("InvalidInstanceId")
  ELSE ResolveMatches(map, RegexGroups(icuMessageInstanceId), locale)

\* i18n.js:345-346 with 202-209: the instance as _formatIcuMessage leaves it;
\* its values are the object _preprocessMessageValues is handed
LeftWith(localeMessage, icuMessageInstance) ==
  IF localeMessage = <<>> THEN icuMessageInstance
  ELSE [icuMessageId |-> icuMessageInstance.icuMessageId,
        icuMessage |-> icuMessageInstance.icuMessage,
        values |-> _preprocessMessageValues(localeMessage,
                                            icuMessageInstance.values).argument]

LeftBy(locale, icuMessageInstance) ==
  IF locale \notin DOMAIN LOCALES THEN icuMessageInstance
  ELSE LeftWith(WithFallback(CatalogMessage(LOCALES[locale], icuMessageInstance.icuMessageId),
                             icuMessageInstance.icuMessage),
                icuMessageInstance)

\* the registry as _resolveIcuMessageInstanceId leaves it
ResolvedAt(map, matches, locale) ==
  IF Number(matches.icuMessageInstanceIndex) >= Len(MapGet(map, matches.icuMessageId))
    THEN map
    ELSE [map EXCEPT ![matches.icuMessageId][Number(matches.icuMessageInstanceIndex) + 1]
                       = LeftBy(locale, @)]

ResolvedIn(map, icuMessageInstanceId, locale) ==
  IF ~MESSAGE_INSTANCE_ID_REGEX(icuMessageInstanceId) THEN map
  ELSE ResolvedAt(map, RegexGroups(icuMessageInstanceId), locale)

\* the registry as getFormatted leaves it
FormattedIn(map, icuMessageIdOrRawString, locale) ==
  IF isIcuMessage(icuMessageIdOrRawString)
    THEN ResolvedIn(map, icuMessageIdOrRawString, locale)
    ELSE map

FormattedStringOf(r) == [error |-> r.error, result |-> r.formattedString]

getFormatted(map, icuMessageIdOrRawString, locale) ==
  IF isIcuMessage(icuMessageIdOrRawString)
    THEN FormattedStringOf(_resolveIcuMessageInstanceId(map, icuMessageIdOrRawString, locale))
    ELSE [error |-> "none", result |-> icuMessageIdOrRawString]

(***************************************************************************)
(* Documents (the LHR): a tree of objects and arrays with string, number   *)
(* and null leaves.  An array is held as Object.entries sees it: its       *)
(* elements under the property names "0", "1", ...                         *)
(***************************************************************************)
StrNode(s) == [t |-> "string", s |-> s, n |-> 0, e |-> <<>>]
NumNode(n) == [t |-> "number", s |-> <<>>, n |-> n, e |-> <<>>]
NullNode == [t |-> "null", s |-> <<>>, n |-> 0, e |-> <<>>]
ObjNode(e) == [t |-> "object", s |-> <<>>, n |-> 0, e |-> e]
ArrNode(items) ==
  [t |-> "array", s |-> <<>>, n |-> 0,
   e |-> [i \in 1..Len(items) |-> [k |-> ToDecimal(i - 1), v |-> items[i]]]]

\* atoms that are runs of ASCII letters
LetterAtoms == {"title", "score", "details", "items", "audits", "a", "Hello", "Title",
                "Titel", "of", "von", "ms", "Address", "URL"}

\* /^[a-z]+$/i.test(property)
IsLettersOnly(property) ==
  /\ property # <<>>
  /\ \A i \in 1..Len(property) : property[i] \in LetterAtoms

\* /]|"|'|\s/.test(property)
HasUnrepresentable(property) ==
  \E i \in 1..Len(property) :
    property[i] \in {"]", "\"", "'", " ", "\n", "\r", "\t", "NBSP", "LS", "PS"}

\* a turn that puts the '.' before every run of letters, the first as well
DottedStep(front, property) ==
  CASE front.error # "none" -> front
    [] IsLettersOnly(property) ->
         [error |-> "none", pathAsString |-> front.pathAsString \o <<".">> \o property]
    [] HasUnrepresentable(property) -> [error |-> "CannotHandle", pathAsString |-> <<>>]
    [] OTHER ->
         [error |-> "none",
          pathAsString |-> front.pathAsString \o <<"[">> \o property \o <<"]">>]

\* i18n.js:221-227: one turn of the loop, on the string built so far
PathStep(front, property) ==
  CASE front.error # "none" -> front
    [] IsLettersOnly(property) ->
         [error |-> "none",
          pathAsString |-> front.pathAsString
            \o (IF front.pathAsString # <<>> THEN <<".">> ELSE <<>>) \o property]
    [] HasUnrepresentable(property) -> [error |-> "CannotHandle", pathAsString |-> <<>>]
    [] OTHER ->
         [error |-> "none",
          pathAsString |-> front.pathAsString \o <<"[">> \o property \o <<"]">>]

\* i18n.js:217-231
RECURSIVE _formatPathAsString(_)
_formatPathAsString(pathInLHR) ==
  IF pathInLHR = <<>> THEN [error |-> "none", pathAsString |-> <<>>]
  ELSE PathStep(_formatPathAsString(SubSeq(pathInLHR, 1, Len(pathInLHR) - 1)),
                pathInLHR[Len(pathInLHR)])

\* a test that takes every values but undefined
Present(values) == values.t # "undefined"

\* i18n.js:377, `icuMessageInstance.values ?`: an object, the empty one as
\* well, is truthy; undefined and null are falsy
Truthy(values) == values.t \notin {"undefined", "null"}

\* i18n.js:376-380: the report entry of one occurrence; an instance whose
\* values are falsy gives the path alone
ReportEntry(icuMessageInstance, currentPathAsString) ==
  IF ~Truthy(icuMessageInstance.values)
    THEN [withValues |-> FALSE, values |-> Undefined, path |-> currentPathAsString]
    ELSE [withValues |-> TRUE, values |-> icuMessageInstance.values,
          path |-> currentPathAsString]

\* an assignment that lands on the first property
WithFirstValue(node, i, v) == [node EXCEPT !.e[1].v = v]

\* node with the value of its i-th property replaced
WithValue(node, i, v) == [node EXCEPT !.e[i].v = v]

\* a report that keeps the last entry of an id only
PushedOver(icuMessagePaths, icuMessageInstance, currentPathAsString) ==
  MapSet(icuMessagePaths, icuMessageInstance.icuMessageId,
         <<ReportEntry(icuMessageInstance, currentPathAsString)>>)

\* i18n.js:373-383: the report with one more entry under the instance's id
Pushed(icuMessagePaths, icuMessageInstance, currentPathAsString) ==
  MapSet(icuMessagePaths, icuMessageInstance.icuMessageId,
         Append(MapGet(icuMessagePaths, icuMessageInstance.icuMessageId),
                ReportEntry(icuMessageInstance, currentPathAsString)))

Walked(error, node, icuMessagePaths, map) ==
  [error |-> error, node |-> node, icuMessagePaths |-> icuMessagePaths, map |-> map]

\* i18n.js:364-388.  ReplaceFrom is the for loop from the i-th entry on;
\* ReplaceToken is the branch of a value that is an instance id, resolved to
\* r at the path p; Descend is the branch of any other value, walked to sub.
\* Each gives the (mutated) subObject, the report so far, the error thrown
\* and the registry as the resolutions so far leave it.
RECURSIVE replaceInObject(_, _, _, _, _)
RECURSIVE ReplaceFrom(_, _, _, _, _, _)
RECURSIVE ReplaceToken(_, _, _, _, _, _, _, _)
RECURSIVE Descend(_, _, _, _, _, _)
replaceInObject(map, subObject, icuMessagePaths, pathInLHR, locale) ==
  IF subObject.t \notin {"object", "array"}
    THEN Walked("none", subObject, icuMessagePaths, map)
    ELSE ReplaceFrom(map, subObject, 1, icuMessagePaths, pathInLHR, locale)

\* a branch that assigns and reports before the path is written
EagerToken(map, subObject, i, icuMessagePaths, pathInLHR, locale, r, p) ==
  CASE r.error # "none" ->
         Walked(r.error, subObject, icuMessagePaths,
                ResolvedIn(map, subObject.e[i].v.s, locale))
    [] p.error # "none" ->
         Walked(p.error, WithValue(subObject, i, StrNode(r.formattedString)),
                Pushed(icuMessagePaths, r.icuMessageInstance, <<>>),
                ResolvedIn(map, subObject.e[i].v.s, locale))
    [] OTHER ->
         ReplaceFrom(ResolvedIn(map, subObject.e[i].v.s, locale),
                     WithValue(subObject, i, StrNode(r.formattedString)), i + 1,
                     Pushed(icuMessagePaths, r.icuMessageInstance, p.pathAsString),
                     pathInLHR, locale)

ReplaceToken(map, subObject, i, icuMessagePaths, pathInLHR, locale, r, p) ==
  CASE r.error # "none" ->
         Walked(r.error, subObject, icuMessagePaths,
                ResolvedIn(map, subObject.e[i].v.s, locale))
    [] p.error # "none" ->
         Walked(p.error, subObject, icuMessagePaths,
                ResolvedIn(map, subObject.e[i].v.s, locale))
    [] OTHER ->
         ReplaceFrom(ResolvedIn(map, subObject.e[i].v.s, locale), WithValue(subObject, i, StrNode(r.formattedString)), i + 1,
                     Pushed(icuMessagePaths, r.icuMessageInstance, p.pathAsString),
                     pathInLHR, locale)

Descend(map, subObject, i, pathInLHR, locale, sub) ==
  IF sub.error # "none"
    THEN Walked(sub.error, WithValue(subObject, i, sub.node), sub.icuMessagePaths, sub.map)
    ELSE ReplaceFrom(sub.map, WithValue(subObject, i, sub.node), i + 1,
                     sub.icuMessagePaths, pathInLHR, locale)

ReplaceFrom(map, subObject, i, icuMessagePaths, pathInLHR, locale) ==
  IF i > Len(subObject.e) THEN Walked("none", subObject, icuMessagePaths, map)
  ELSE IF subObject.e[i].v.t = "string" /\ isIcuMessage(subObject.e[i].v.s)
    THEN ReplaceToken(map, subObject, i, icuMessagePaths, pathInLHR, locale,
                      _resolveIcuMessageInstanceId(map, subObject.e[i].v.s, locale),
                      _formatPathAsString(Append(pathInLHR, subObject.e[i].k)))
    ELSE Descend(map, subObject, i, pathInLHR, locale,
                 replaceInObject(map, subObject.e[i].v, icuMessagePaths,
                                 Append(pathInLHR, subObject.e[i].k), locale))

\* what the call leaves and returns: nothing is returned when it throws;
\* icuMessagePaths is the report as the call built it
Returned(r) ==
  [error |-> r.error, inputObject |-> r.node,
   result |-> IF r.error = "none" THEN r.icuMessagePaths ELSE <<>>,
   icuMessagePaths |-> r.icuMessagePaths,
   map |-> r.map]

\* i18n.js:358-394
replaceIcuMessageInstanceIds(map, inputObject, locale) ==
  Returned(replaceInObject(map, inputObject, <<>>, <<>>, locale))

\* the strings a document holds, and getFormatted is called with: instance
\* ids of registered and of unregistered instances, and a plain string, one
\* that passes the quick pattern and not the full one ("Hello # 1")
Plain == <<"Hello", " ", "#", " ", "1">>

StringInputs ==
  << EncodeInstanceId(IdTitle, 0), EncodeInstanceId(IdDisplayValue, 0),
     EncodeInstanceId(IdDisplayValue, 1), EncodeInstanceId(IdMs, 0), Plain >>

\* the strings a document holds at title and details.items[0]
DocumentStrings ==
  << EncodeInstanceId(IdTitle, 0), EncodeInstanceId(IdDisplayValue, 0), Plain >>

\* a document: a token-shaped property name over a plain string, a number,
\* a null, and two strings at title and details.items[0]
Document(s1, s2) ==
  ObjNode(<< [k |-> <<"title">>, v |-> StrNode(s1)],
             [k |-> EncodeInstanceId(IdTitle, 0), v |-> StrNode(Plain)],
             [k |-> <<"score">>, v |-> NumNode(1)],
             [k |-> <<"details">>,
              v |-> ObjNode(<< [k |-> <<"items">>,
                                v |-> ArrNode(<<StrNode(s2), NullNode>>)] >>)] >>)

(***************************************************************************)
(* The module as a state machine: calls of the id functions, getFormatted  *)
(* and replaceIcuMessageInstanceIds, in any order.  The code is            *)
(* synchronous (no await, no callback), so each call is one step; the      *)
(* caller then takes the outcome (Return).                                 *)
(***************************************************************************)
Idle == [op |-> "idle"]
NoCodec == [pc |-> "idle"]
NoneIssued == <<>>

Init ==
  /\ _icuMessageInstanceMap = <<>>
  /\ last = Idle
  /\ codec = NoCodec
  /\ issued = NoneIssued

RegisterCall(p, icuMessage, values, r) ==
  [op |-> "register", producer |-> p, icuMessage |-> icuMessage, values |-> values,
   error |-> r.error, icuMessageId |-> r.icuMessageId, result |-> r.result]

\* the call of producer p's id function has the outcome r
Called(p, icuMessage, values, r) ==
  /\ Size(r.map) <= MaxInstances
  /\ _icuMessageInstanceMap' = r.map
  /\ last' = RegisterCall(p, icuMessage, values, r)

Register(p, icuMessage, values) ==
  /\ last.op = "idle"
  /\ Called(p, icuMessage, values,
            getMessageInstanceIdFn(_icuMessageInstanceMap, IdFns[p], icuMessage, values))
  /\ UNCHANGED <<codec, issued>>

GetFormattedCall(s, locale, r) ==
  [op |-> "getFormatted", input |-> s, locale |-> locale,
   error |-> r.error, result |-> r.result]

GetFormatted(s, locale) ==
  /\ last.op = "idle"
  /\ last' = GetFormattedCall(s, locale, getFormatted(_icuMessageInstanceMap, s, locale))
  /\ _icuMessageInstanceMap' = FormattedIn(_icuMessageInstanceMap, s, locale)
  /\ UNCHANGED <<codec, issued>>

ReplaceCall(inputObject, locale, r) ==
  [op |-> "replace", input |-> inputObject, locale |-> locale,
   error |-> r.error, inputObject |-> r.inputObject, result |-> r.result,
   icuMessagePaths |-> r.icuMessagePaths]

\* the call of replaceIcuMessageInstanceIds has the outcome r
Replaced(inputObject, locale, r) ==
  /\ last' = ReplaceCall(inputObject, locale, r)
  /\ _icuMessageInstanceMap' = r.map

Replace(s1, s2, locale) ==
  /\ last.op = "idle"
  /\ Replaced(Document(s1, s2), locale,
              replaceIcuMessageInstanceIds(_icuMessageInstanceMap, Document(s1, s2), locale))
  /\ UNCHANGED <<codec, issued>>

\* the caller takes the outcome; the module is ready for the next call
Return ==
  /\ last.op # "idle"
  /\ last' = Idle
  /\ UNCHANGED <<_icuMessageInstanceMap, codec, issued>>

Next ==
  \/ \E p \in 1..Len(Producers), m \in 1..Len(MessageInputs), v \in 1..Len(ValueInputs) :
       Register(p, MessageInputs[m], ValueInputs[v])
  \/ \E s \in 1..Len(StringInputs), l \in 1..Len(LocaleInputs) :
       GetFormatted(StringInputs[s], LocaleInputs[l])
  \/ \E s1 \in 1..Len(DocumentStrings), s2 \in 1..Len(DocumentStrings),
          l \in 1..Len(WalkLocales) :
       Replace(DocumentStrings[s1], DocumentStrings[s2], WalkLocales[l])
  \/ Return

Spec == Init /\ [][Next]_vars

(***************************************************************************)
(* _formatPathAsString called with paths of property names: runs of        *)
(* letters, an array index, an empty name, names with a digit, a bracket,  *)
(* a dot, a quote or white space in them, and an instance id.              *)
(***************************************************************************)
PathProperties ==
  << <<"title">>, <<"a", "Title">>, <<"0">>, <<>>, <<"a", "1">>, <<"[">>, <<".">>,
     <<"a", "]">>, <<"\"">>, <<"'", "a">>, <<"a", "\n">>, <<"NBSP">>,
     EncodeInstanceId(IdTitle, 0) >>

\* the paths of at most n properties
RECURSIVE PathsOf(_)
PathsOf(n) ==
  IF n = 0 THEN {<<>>}
  ELSE PathsOf(n - 1)
         \cup {Append(p, PathProperties[i]) : p \in PathsOf(n - 1), i \in 1..Len(PathProperties)}

PathCall(pathInLHR, r) ==
  [op |-> "formatPath", pathInLHR |-> pathInLHR, error |-> r.error,
   pathAsString |-> r.pathAsString]

FormatPathAsString(pathInLHR) ==
  /\ last.op = "idle"
  /\ last' = PathCall(pathInLHR, _formatPathAsString(pathInLHR))
  /\ UNCHANGED <<_icuMessageInstanceMap, codec, issued>>

PathNext ==
  \/ last.op = "idle" /\ \E pathInLHR \in PathsOf(MaxPathLen) : FormatPathAsString(pathInLHR)
  \/ Return

PathSpec == Init /\ [][PathNext]_vars

(***************************************************************************)
(* The report of replaceIcuMessageInstanceIds over instances registered    *)
(* with every kind of values: none, an empty object, null and an object    *)
(* with properties.                                                        *)
(***************************************************************************)
ReportMessages == <<Title, Ratio>>

ReportValues ==
  << Undefined, Obj(<<>>), Null, Obj(<<Prop("x", Num(1)), Prop("y", Num(2))>>) >>

\* the strings a document holds at title and details.items[0]
ReportStrings ==
  << EncodeInstanceId(IdTitle, 0), EncodeInstanceId(IdTitle, 1),
     EncodeInstanceId(IdDisplayValue, 0) >>

ReportNext ==
  \/ \E m \in 1..Len(ReportMessages), v \in 1..Len(ReportValues) :
       Register(1, ReportMessages[m], ReportValues[v])
  \/ \E s1 \in 1..Len(ReportStrings), s2 \in 1..Len(ReportStrings),
          l \in 1..Len(WalkLocales) :
       Replace(ReportStrings[s1], ReportStrings[s2], WalkLocales[l])
  \/ Return

ReportSpec == Init /\ [][ReportNext]_vars

(***************************************************************************)
(* replaceIcuMessageInstanceIds on documents with three strings, the       *)
(* second nested under a property name that can or cannot be written in a  *)
(* path, over instances that resolve and instances that do not.            *)
(***************************************************************************)
WalkStrings ==
  << EncodeInstanceId(IdTitle, 0), EncodeInstanceId(IdDisplayValue, 0), Plain >>

WalkProperties == << <<"items">>, <<"a", " ", "a">> >>

WalkDocument(s1, property, s2, s3) ==
  ObjNode(<< [k |-> <<"title">>, v |-> StrNode(s1)],
             [k |-> <<"details">>, v |-> ObjNode(<< [k |-> property, v |-> StrNode(s2)] >>)],
             [k |-> <<"score">>, v |-> StrNode(s3)] >>)

ReplaceIn(inputObject, locale) ==
  /\ last.op = "idle"
  /\ Replaced(inputObject, locale,
              replaceIcuMessageInstanceIds(_icuMessageInstanceMap, inputObject, locale))
  /\ UNCHANGED <<codec, issued>>

WalkNext ==
  \/ \E m \in 1..Len(ReportMessages), v \in 1..Len(ReportValues) :
       Register(1, ReportMessages[m], ReportValues[v])
  \/ /\ last.op = "idle"
     /\ \E s1 \in 1..Len(WalkStrings), s2 \in 1..Len(WalkStrings), s3 \in 1..Len(WalkStrings),
           k \in 1..Len(WalkProperties), l \in 1..Len(WalkLocales) :
          ReplaceIn(WalkDocument(WalkStrings[s1], WalkProperties[k], WalkStrings[s2],
                                 WalkStrings[s3]),
                    WalkLocales[l])
  \/ Return

WalkSpec == Init /\ [][WalkNext]_vars

(***************************************************************************)
(* The id functions of two producers called in any interleaving, with the  *)
(* history of the calls kept: what each was called with, the instances of  *)
(* its key before and after, and what it returned.  A call runs to its end *)
(* before the next begins (i18n.js:271-289 has no await).                  *)
(***************************************************************************)
RaceMessages == <<Title, Ratio>>

RaceValues ==
  << Undefined,
     Obj(<<Prop("x", Num(1)), Prop("y", Num(2))>>),
     Obj(<<Prop("y", Num(2)), Prop("x", Num(1))>>),
     Obj(<<Prop("x", Num(2)), Prop("y", Num(1))>>) >>

IssuedCall(map, p, icuMessage, values, r) ==
  [producer |-> p, icuMessage |-> icuMessage, values |-> values,
   error |-> r.error, icuMessageId |-> r.icuMessageId, result |-> r.result,
   before |-> MapGet(map, r.icuMessageId), after |-> MapGet(r.map, r.icuMessageId)]

Issued(p, icuMessage, values, r) ==
  /\ _icuMessageInstanceMap' = r.map
  /\ issued' = Append(issued, IssuedCall(_icuMessageInstanceMap, p, icuMessage, values, r))

RaceRegister(p, icuMessage, values) ==
  /\ Len(issued) < MaxCalls
  /\ Issued(p, icuMessage, values,
            getMessageInstanceIdFn(_icuMessageInstanceMap, IdFns[p], icuMessage, values))
  /\ UNCHANGED <<last, codec>>

RaceNext ==
  \E p \in 1..Len(Producers), m \in 1..Len(RaceMessages), v \in 1..Len(RaceValues) :
    RaceRegister(p, RaceMessages[m], RaceValues[v])

RaceSpec == Init /\ [][RaceNext]_vars

(***************************************************************************)
(* The formatter on its own: _formatIcuMessage, getFormattedFromIdAndValues *)
(* and _preprocessMessageValues called with messages, ids and values of    *)
(* every kind.                                                             *)
(***************************************************************************)
\* i18n.js:324-325, /(.* \| .*)$/.test(icuMessageId)
icuMessageIdRegex(s) ==
  \E p \in 1..Len(s) : HasAt(s, p, BarSep) /\ DotStar(s, p + 3, Len(s) + 1)

\* i18n.js:327-328
FormattedString(f) == [error |-> f.error, result |-> f.formattedString]

\* i18n.js:323-329
getFormattedFromIdAndValues(locale, icuMessageId, values) ==
  IF ~icuMessageIdRegex(icuMessageId) THEN [error |-> "NotAnId", result |-> <<>>]
  ELSE FormattedString(_formatIcuMessage(locale, icuMessageId, <<>>, values))

\* a plural: "1 item" for n = 1, "{x} items" otherwise (the option n = -1 is
\* "other")
Items ==
  << Plural("n", << [n |-> 1, message |-> <<Text(<<"1", SP, "item">>)>>],
                    [n |-> -1, message |-> <<Arg("x", ""), Text(<<SP, "items">>)>>] >>) >>

\* a message id no catalog has
IdItems == unixStyleFilename(Producers[1].filename) \o BarSep \o <<"items">>

FormatIds == <<IdTitle, IdDisplayValue, IdMs, IdItems, <<"title">>>>

\* the backup messages; <<>> is none
FormatMessages == << <<>>, Title, Ratio, Items >>

FormatValues ==
  << Undefined,
     Obj(<<>>),
     Obj(<<Prop("x", Num(1)), Prop("y", Num(2))>>),
     Obj(<<Prop("x", Num(1))>>),
     Obj(<<Prop("x", UndefinedScalar), Prop("y", Num(2))>>),
     Obj(<<Prop("n", Num(1))>>),
     Obj(<<Prop("n", Num(2))>>),
     Obj(<<Prop("n", Num(2)), Prop("x", Num(5))>>),
     Obj(<<Prop("timeInMs", Num(1234))>>) >>

\* messages of one placeholder in each style, of a placeholder twice, and of
\* a placeholder inside a plural
Sized(id) ==
  << Plural("n", << [n |-> 1, message |-> <<Text(<<"1", SP, "item">>)>>],
                    [n |-> -1, message |-> <<Arg(id, "bytes"), Text(<<"NBSP", "KB">>)>>] >>) >>

StyledMessages(id) ==
  << <<Arg(id, "milliseconds"), Text(<<"NBSP", "ms">>)>>,
     <<Arg(id, "seconds"), Text(<<"NBSP", "s">>)>>,
     <<Arg(id, "bytes"), Text(<<"NBSP", "KB">>)>>,
     <<Arg(id, "extendedPercent")>>,
     <<Arg(id, "")>>,
     <<Arg(id, "bytes"), Text(<<SP, "of", SP>>), Arg(id, "bytes")>>,
     <<Arg("n", ""), Text(<<SP>>)>> \o Sized(id) >>

PlaceholderNames == <<"timeInMs", "x">>

FormatCall(locale, icuMessageId, uiStringMessage, values, f) ==
  [op |-> "format", locale |-> locale, icuMessageId |-> icuMessageId,
   uiStringMessage |-> uiStringMessage, values |-> values,
   error |-> f.error, formattedString |-> f.formattedString, icuMessage |-> f.icuMessage]

FormatIcuMessage(locale, icuMessageId, uiStringMessage, values) ==
  /\ last.op = "idle"
  /\ last' = FormatCall(locale, icuMessageId, uiStringMessage, values,
                        _formatIcuMessage(locale, icuMessageId, uiStringMessage, values))
  /\ UNCHANGED <<_icuMessageInstanceMap, codec, issued>>

FormatFromIdCall(locale, icuMessageId, values, r) ==
  [op |-> "formatFromId", locale |-> locale, icuMessageId |-> icuMessageId,
   values |-> values, error |-> r.error, result |-> r.result]

GetFormattedFromIdAndValues(locale, icuMessageId, values) ==
  /\ last.op = "idle"
  /\ last' = FormatFromIdCall(locale, icuMessageId, values,
                              getFormattedFromIdAndValues(locale, icuMessageId, values))
  /\ UNCHANGED <<_icuMessageInstanceMap, codec, issued>>

PreprocessCall(icuMessage, values, r) ==
  [op |-> "preprocess", icuMessage |-> icuMessage, values |-> values,
   error |-> r.error, id |-> r.id, result |-> r.values]

Preprocess(icuMessage, values) ==
  /\ last.op = "idle"
  /\ last' = PreprocessCall(icuMessage, values, _preprocessMessageValues(icuMessage, values))
  /\ UNCHANGED <<_icuMessageInstanceMap, codec, issued>>

\* a call is made when the last one has returned
FormatNext ==
  \/ /\ last.op = "idle"
     /\ \E l \in 1..Len(LocaleInputs), i \in 1..Len(FormatIds),
            m \in 1..Len(FormatMessages), v \in 1..Len(FormatValues) :
          FormatIcuMessage(LocaleInputs[l], FormatIds[i], FormatMessages[m], FormatValues[v])
  \/ /\ last.op = "idle"
     /\ \E l \in 1..Len(LocaleInputs), i \in 1..Len(FormatIds), v \in 1..Len(FormatValues) :
          GetFormattedFromIdAndValues(LocaleInputs[l], FormatIds[i], FormatValues[v])
  \/ /\ last.op = "idle"
     /\ \E n \in 1..Len(PlaceholderNames), m \in 1..Len(StyledMessages("x")),
            v \in 0..MaxValue :
          Preprocess(StyledMessages(PlaceholderNames[n])[m],
                     Obj(<<Prop("n", Num(2)), Prop(PlaceholderNames[n], Num(v))>>))
  \/ /\ last.op = "idle"
     /\ \E m \in 1..Len(FormatMessages), v \in 1..Len(FormatValues) :
          Preprocess(FormatMessages[m], FormatValues[v])
  \/ Return

FormatSpec == Init /\ [][FormatNext]_vars

(***************************************************************************)
(* bakePlaceholders, bake-ctc-to-lhl.js:63-90.  A string is the sequence   *)
(* of its characters: "$", the word characters "A" and "B", the space, and *)
(* "{url}" for an ICU argument, which holds no "$".                        *)
(***************************************************************************)
\* \w
IsWord(c) == c \in {"A", "B"}

\* message.includes(sub)
Includes(s, sub) == \E i \in 1..Len(s) : HasAt(s, i, sub)

\* the replacement text String.prototype.replace makes of a replacement
\* string: "$$" stands for one "$"
RECURSIVE GetSubstitution(_)
GetSubstitution(content) ==
  IF content = <<>> THEN <<>>
  ELSE IF Len(content) >= 2 /\ content[1] = "$" /\ content[2] = "$"
    THEN <<"$">> \o GetSubstitution(SubSeq(content, 3, Len(content)))
    ELSE <<content[1]>> \o GetSubstitution(Tail(content))

\* s with sub, found at i, replaced
ReplacedAt(s, i, sub, content) ==
  SubSeq(s, 1, i - 1) \o GetSubstitution(content) \o SubSeq(s, i + Len(sub), Len(s))

\* bake-ctc-to-lhl.js:77, message.replace(escapedPlaceholder, content): the
\* first occurrence is replaced
Replace1(s, sub, content) ==
  IF ~Includes(s, sub) THEN s
  ELSE ReplacedAt(s, CHOOSE i \in 1..Len(s) :
                       HasAt(s, i, sub) /\ \A j \in 1..(i - 1) : ~HasAt(s, j, sub),
                  sub, content)

\* /\$\w+\$/ matches s from i to j
DollarWord(s, i, j) ==
  /\ 1 <= i /\ i + 1 < j /\ j <= Len(s)
  /\ s[i] = "$" /\ s[j] = "$"
  /\ \A k \in (i + 1)..(j - 1) : IsWord(s[k])

\* bake-ctc-to-lhl.js:82, message.match(/\$\w+\$/)
HasDollarWord(s) == \E i \in 1..Len(s), j \in 1..Len(s) : DollarWord(s, i, j)

\* bake-ctc-to-lhl.js:72-78: the entries of placeholders from the i-th on
RECURSIVE BakeEntries(_, _, _)
BakeEntries(message, entries, i) ==
  IF i > Len(entries) THEN [error |-> "none", message |-> message]
  ELSE IF ~Includes(message, <<"$">> \o entries[i].placeholder \o <<"$">>)
    THEN [error |-> "PlaceholderNotFound", message |-> message]
    ELSE BakeEntries(Replace1(message, <<"$">> \o entries[i].placeholder \o <<"$">>,
                              entries[i].content),
                     entries, i + 1)

\* bake-ctc-to-lhl.js:81-84
SanityChecked(b) ==
  IF b.error = "none" /\ HasDollarWord(b.message)
    THEN [error |-> "MissingPlaceholder", message |-> b.message]
    ELSE b

\* bake-ctc-to-lhl.js:68-86: one message; placeholders may be undefined
BakeMessage(defn) ==
  SanityChecked(IF defn.placeholders.defined
                  THEN BakeEntries(defn.message, defn.placeholders.entries, 1)
                  ELSE [error |-> "none", message |-> defn.message])

\* bake-ctc-to-lhl.js:67-89: the messages from the i-th on, baked so far
RECURSIVE BakeFrom(_, _, _)
Baked(messages, i, bakedMessages, b) ==
  IF b.error # "none" THEN [error |-> b.error, bakedMessages |-> <<>>]
  ELSE BakeFrom(messages, i + 1,
                Append(bakedMessages, [key |-> messages[i].key, message |-> b.message]))

BakeFrom(messages, i, bakedMessages) ==
  IF i > Len(messages) THEN [error |-> "none", bakedMessages |-> bakedMessages]
  ELSE Baked(messages, i, bakedMessages, BakeMessage(messages[i]))

\* bake-ctc-to-lhl.js:63-90
bakePlaceholders(messages) == BakeFrom(messages, 1, <<>>)

MessageChars == <<"$", "A", "B", " ">>

\* the messages of at most n characters
RECURSIVE MessagesOf(_)
MessagesOf(n) ==
  IF n = 0 THEN {<<>>}
  ELSE MessagesOf(n - 1)
         \cup {Append(s, MessageChars[i]) : s \in MessagesOf(n - 1), i \in 1..Len(MessageChars)}

Contents == << <<"{url}">>, <<"$", "B", "$">>, <<"$", "$">> >>

PlaceholderEntry(placeholder, content) == [placeholder |-> placeholder, content |-> content]

NoPlaceholders == [defined |-> FALSE, entries |-> <<>>]
Placeholders(entries) == [defined |-> TRUE, entries |-> entries]

\* placeholders objects: undefined, empty, with A or B, with both in either order
PlaceholderInputs ==
  {NoPlaceholders, Placeholders(<<>>)}
    \cup {Placeholders(<<PlaceholderEntry(<<n>>, Contents[c])>>) :
            n \in {"A", "B"}, c \in 1..Len(Contents)}
    \cup {Placeholders(<<PlaceholderEntry(<<n>>, Contents[c]),
                         PlaceholderEntry(<<IF n = "A" THEN "B" ELSE "A">>, Contents[d])>>) :
            n \in {"A", "B"}, c \in 1..Len(Contents), d \in 1..Len(Contents)}

Defn(key, message, placeholders) ==
  [key |-> key, message |-> message, placeholders |-> placeholders]

\* the message that may follow the first
SecondDefns ==
  << Defn("k2", <<"$", "B", "$">>, Placeholders(<<PlaceholderEntry(<<"B">>, <<"{url}">>)>>)),
     Defn("k2", <<"$", "B", "$">>, NoPlaceholders) >>

BakeCall(messages, r) ==
  [op |-> "bake", messages |-> messages, error |-> r.error,
   bakedMessages |-> r.bakedMessages]

BakePlaceholders(messages) ==
  /\ last.op = "idle"
  /\ last' = BakeCall(messages, bakePlaceholders(messages))
  /\ UNCHANGED <<_icuMessageInstanceMap, codec, issued>>

BakeNext ==
  \/ /\ last.op = "idle"
     /\ \E message \in MessagesOf(MaxMessageLen), placeholders \in PlaceholderInputs :
          \/ BakePlaceholders(<<Defn("k1", message, placeholders)>>)
          \/ \E s \in 1..Len(SecondDefns) :
               BakePlaceholders(<<Defn("k1", message, placeholders), SecondDefns[s]>>)
  \/ Return

BakeSpec == Init /\ [][BakeNext]_vars

(***************************************************************************)
(* lookupLocale, i18n.js:120-126.  A locale tag is the sequence of its     *)
(* subtags ("de-CH-1996" is <<"de", "CH", "1996">>); <<>> is no tag at all *)
(* (undefined), <<"">> the empty string.                                   *)
(***************************************************************************)
Subtags == <<"de", "DE", "ch", "CH", "1996", "en", "XA", "xx", "", "d_e">>

\* the tags of at most n subtags
RECURSIVE TagsOf(_)
TagsOf(n) ==
  IF n = 0 THEN {<<>>}
  ELSE TagsOf(n - 1) \cup {Append(t, Subtags[i]) : t \in TagsOf(n - 1), i \in 1..Len(Subtags)}

Tags == TagsOf(MaxSubtags)

\* two letters: a language subtag in the first place, a region subtag after it
IsAlpha2(t) == t \in {"de", "DE", "ch", "CH", "en", "XA", "xx"}

\* a digit and three more characters: a variant subtag
IsVariant(t) == t = "1996"

LowerCase(t) ==
  CASE t = "DE" -> "de" [] t = "CH" -> "ch" [] t = "XA" -> "xa" [] OTHER -> t

UpperCase(t) ==
  CASE t = "de" -> "DE" [] t = "ch" -> "CH" [] t = "en" -> "EN" [] t = "xx" -> "XX"
    [] OTHER -> t

\* a structurally valid tag: a language, then a region or not, then variants,
\* no variant twice
WellFormed(tag) ==
  /\ tag # <<>>
  /\ IsAlpha2(tag[1])
  /\ \A i \in 2..Len(tag) : (i = 2 /\ IsAlpha2(tag[i])) \/ IsVariant(tag[i])
  /\ \A i \in 2..Len(tag), j \in 2..Len(tag) :
       (i < j /\ IsVariant(tag[i])) => LowerCase(tag[i]) # LowerCase(tag[j])

\* the tag in canonical case: language lower, region upper, variant lower
Canonical(tag) ==
  [i \in 1..Len(tag) |->
     IF i = 1 THEN LowerCase(tag[i])
     ELSE IF IsAlpha2(tag[i]) THEN UpperCase(tag[i])
     ELSE LowerCase(tag[i])]

\* Intl.getCanonicalLocales(locale): no tag gives the empty list, a valid tag
\* the list of its canonical form, any other string a RangeError
getCanonicalLocales(locale) ==
  IF locale = <<>> THEN [error |-> "none", list |-> <<>>]
  ELSE IF WellFormed(locale) THEN [error |-> "none", list |-> <<Canonical(locale)>>]
  ELSE [error |-> "RangeError", list |-> <<>>]

\* the subtags joined by "-"
RECURSIVE JoinTag(_)
JoinTag(tag) ==
  IF tag = <<>> THEN ""
  ELSE IF Len(tag) = 1 THEN tag[1]
  ELSE JoinTag(SubSeq(tag, 1, Len(tag) - 1)) \o "-" \o tag[Len(tag)]

\* lookup-closest-locale: the tag when it is available, else the tag with
\* subtags popped from its end until it is; "" (undefined) when none is
RECURSIVE lookupClosestLocale(_, _)
lookupClosestLocale(tag, available) ==
  IF tag = <<>> THEN ""
  ELSE IF JoinTag(tag) \in available THEN JoinTag(tag)
  ELSE lookupClosestLocale(SubSeq(tag, 1, Len(tag) - 1), available)

\* a return of closestLocale without the default
ClosestOnly(closestLocale) == [error |-> "none", result |-> closestLocale]

\* i18n.js:124-125, closestLocale || 'en'
ClosestOrDefault(closestLocale) ==
  [error |-> "none", result |-> IF closestLocale = "" THEN "en" ELSE closestLocale]

\* i18n.js:122-125; [0] of the empty list is undefined
Canonicalized(canonical) ==
  IF canonical.error # "none" THEN [error |-> canonical.error, result |-> ""]
  ELSE ClosestOrDefault(
         lookupClosestLocale(IF canonical.list = <<>> THEN <<>> ELSE canonical.list[1],
                             DOMAIN LOCALES))

\* i18n.js:120-126
lookupLocale(locale) == Canonicalized(getCanonicalLocales(locale))

LookupCall(locale, r) ==
  [op |-> "lookupLocale", locale |-> locale, error |-> r.error, result |-> r.result]

LookupLocale(locale) ==
  /\ last.op = "idle"
  /\ last' = LookupCall(locale, lookupLocale(locale))
  /\ UNCHANGED <<_icuMessageInstanceMap, codec, issued>>

LocaleNext ==
  \/ last.op = "idle" /\ \E locale \in Tags : LookupLocale(locale)
  \/ Return

LocaleSpec == Init /\ [][LocaleNext]_vars

(***************************************************************************)
(* The codec on its own: a string is made, by encoding a message key and   *)
(* an index or as it comes, and the patterns are applied to it.            *)
(***************************************************************************)
\* what the strings are built from: the two separators, and single atoms
Pieces == <<BarSep, HashSep, <<"1">>, <<"a">>, <<"\n">>, <<"#">>>>

\* the concatenations of at most n pieces
RECURSIVE Built(_)
Built(n) ==
  IF n = 0 THEN {<<>>}
  ELSE Built(n - 1) \cup {s \o Pieces[i] : s \in Built(n - 1), i \in 1..Len(Pieces)}

\* s contains " | "
HasBar(s) == \E p \in 1..Len(s) : HasAt(s, p, BarSep)

Strings == Built(MaxPieces)
MessageKeys == {s \in Strings : HasBar(s)}

\* what the patterns say of a string: the quick test, the full match and its
\* two groups, the second read as a number (i18n.js:337-342)
NoMatch == [quick |-> FALSE, full |-> FALSE, isIcuMessage |-> FALSE,
            icuMessageId |-> <<>>, icuMessageInstanceIndex |-> -1]

Matched(s, groups) ==
  [quick |-> MESSAGE_INSTANCE_ID_QUICK_REGEX(s), full |-> TRUE,
   isIcuMessage |-> isIcuMessage(s),
   icuMessageId |-> groups.icuMessageId,
   icuMessageInstanceIndex |-> Number(groups.icuMessageInstanceIndex)]

Match(s) ==
  IF MESSAGE_INSTANCE_ID_REGEX(s) THEN Matched(s, RegexGroups(s))
  ELSE [NoMatch EXCEPT !.quick = MESSAGE_INSTANCE_ID_QUICK_REGEX(s),
                       !.isIcuMessage = isIcuMessage(s)]

\* `${icuMessageId} # ${indexOfInstance}`, i18n.js:288
CodecEncode(key, index) ==
  /\ codec.pc = "idle"
  /\ codec' = [pc |-> "made", encoded |-> TRUE, key |-> key, index |-> index,
               s |-> EncodeInstanceId(key, index), match |-> NoMatch]
  /\ UNCHANGED <<_icuMessageInstanceMap, last, issued>>

\* any string, as a document may hold it
CodecRaw(s) ==
  /\ codec.pc = "idle"
  /\ codec' = [pc |-> "made", encoded |-> FALSE, key |-> <<>>, index |-> 0,
               s |-> s, match |-> NoMatch]
  /\ UNCHANGED <<_icuMessageInstanceMap, last, issued>>

\* isIcuMessage(s) and s.match(MESSAGE_INSTANCE_ID_REGEX)
CodecMatch ==
  /\ codec.pc = "made"
  /\ codec' = [codec EXCEPT !.pc = "matched", !.match = Match(codec.s)]
  /\ UNCHANGED <<_icuMessageInstanceMap, last, issued>>

CodecReturn ==
  /\ codec.pc = "matched"
  /\ codec' = NoCodec
  /\ UNCHANGED <<_icuMessageInstanceMap, last, issued>>

CodecNext ==
  \/ \E key \in MessageKeys, index \in 0..MaxIndex : CodecEncode(key, index)
  \/ \E s \in Strings : CodecRaw(s)
  \/ CodecMatch
  \/ CodecReturn

CodecSpec == Init /\ [][CodecNext]_vars

(***************************************************************************)
(* C5, C6: the instance id codec.                                          *)
(***************************************************************************)
\* the string was encoded from a key and an index, and has been matched
Decoded == codec.pc = "matched" /\ codec.encoded

HasLineTerminator(s) == \E p \in 1..Len(s) : IsLineTerminator(s[p])

\* the match gives back the key and the index the string was encoded from
RoundTrip ==
  /\ codec.match.full
  /\ codec.match.icuMessageId = codec.key
  /\ codec.match.icuMessageInstanceIndex = codec.index

HasPattern(s) ==
  \E p \in 1..Len(s), q \in 1..Len(s) :
    p + 3 <= q /\ HasAt(s, p, BarSep) /\ HasAt(s, q, HashSep) /\ DigitsToEnd(s, q + 3)

\* the quick pattern never rejects a string the full pattern accepts
QuickCoversFull == codec.match.full => codec.match.quick

Made(j) == issued[j].error = "none"

\* the calls before the j-th that returned a token for the same key and
\* deep-equal values
Earlier(j) ==
  {i \in 1..(j - 1) :
     /\ Made(i)
     /\ issued[i].icuMessageId = issued[j].icuMessageId
     /\ isDeepEqual(issued[i].values, issued[j].values)}

\* the calls before the j-th that returned a token for the same key
EarlierOfKey(j) ==
  {i \in 1..(j - 1) : Made(i) /\ issued[i].icuMessageId = issued[j].icuMessageId}

\* the index a token carries
IndexOf(token) == Number(RegexGroups(token).icuMessageInstanceIndex)

\* C1: registering under a key values deep-equal to values registered under
\* it before returns exactly the token returned the first time and leaves the
\* key's sequence of instances unchanged.
C1_Dedupe ==
  \A j \in 1..Len(issued) :
    (Made(j) /\ Earlier(j) # {}) =>
      /\ \A i \in Earlier(j) : issued[j].result = issued[i].result
      /\ issued[j].after = issued[j].before

\* values in another property order were registered again, by the other
\* producer, after a registration of other values under the key
C1_Witness ==
  /\ Len(issued) = 3
  /\ Made(3) /\ Earlier(3) = {1} /\ EarlierOfKey(3) = {1, 2}
  /\ issued[3].values # issued[1].values
  /\ issued[3].producer # issued[1].producer
  /\ issued[3].result = issued[1].result

\* C2: registering values deep-equal to none registered under the key appends
\* one instance and returns a token whose index is the key's previous sequence
\* length, strictly greater than every index issued earlier for that key.
C2_NewIndex ==
  \A j \in 1..Len(issued) :
    (Made(j) /\ Earlier(j) = {}) =>
      /\ Len(issued[j].after) = Len(issued[j].before) + 1
      /\ SubSeq(issued[j].after, 1, Len(issued[j].before)) = issued[j].before
      /\ issued[j].after[Len(issued[j].after)].values = issued[j].values
      /\ issued[j].result
           = EncodeInstanceId(issued[j].icuMessageId, Len(issued[j].before))
      /\ IndexOf(issued[j].result) = Len(issued[j].before)
      /\ \A i \in EarlierOfKey(j) : IndexOf(issued[i].result) < IndexOf(issued[j].result)

\* the third values of a key were registered and got the index 2
C2_Witness ==
  /\ Len(issued) = 3
  /\ Made(3) /\ Earlier(3) = {} /\ EarlierOfKey(3) = {1, 2}
  /\ IndexOf(issued[3].result) = 2

\* C10: two producers that call the id functions in any interleaving never
\* get two different indices for deep-equal values under the same key.
C10_OneIndex ==
  \A i \in 1..Len(issued), j \in 1..Len(issued) :
    ( /\ Made(i) /\ Made(j)
      /\ issued[i].producer # issued[j].producer
      /\ issued[i].icuMessageId = issued[j].icuMessageId
      /\ isDeepEqual(issued[i].values, issued[j].values) )
    => IndexOf(issued[i].result) = IndexOf(issued[j].result)

\* the producers took turns (1, 2, 1) on one key, the second and the third
\* call with deep-equal values
C10_Witness ==
  /\ Len(issued) = 3
  /\ issued[1].producer = 1 /\ issued[2].producer = 2 /\ issued[3].producer = 1
  /\ Made(1) /\ Made(2) /\ Made(3)
  /\ EarlierOfKey(3) = {1, 2} /\ Earlier(3) = {2}
  /\ issued[2].values # issued[3].values
  /\ IndexOf(issued[3].result) = 1

(***************************************************************************)
(* C3: the registry, whatever calls are made.                              *)
(***************************************************************************)
\* no key holds two instances with deep-equal values
NoDuplicates ==
  \A id \in DOMAIN _icuMessageInstanceMap :
    \A i \in 1..Len(_icuMessageInstanceMap[id]), j \in 1..Len(_icuMessageInstanceMap[id]) :
      i < j => ~isDeepEqual(_icuMessageInstanceMap[id][i].values,
                            _icuMessageInstanceMap[id][j].values)

\* every instance is, after the step, where it was before it
Kept ==
  \A id \in DOMAIN _icuMessageInstanceMap :
    /\ id \in DOMAIN _icuMessageInstanceMap'
    /\ Len(_icuMessageInstanceMap'[id]) >= Len(_icuMessageInstanceMap[id])
    /\ \A i \in 1..Len(_icuMessageInstanceMap[id]) :
         _icuMessageInstanceMap'[id][i] = _icuMessageInstanceMap[id][i]

\* C3: at all times no key holds two instances with deep-equal values, and
\* the sequence of a key only grows at its end: no call removes, reorders or
\* changes an instance.
C3_AppendOnly == []NoDuplicates /\ [][Kept]_vars

\* a key holds two instances, and a walk has been made since
C3_Witness ==
  /\ last.op = "replace" /\ last.error = "none"
  /\ \E id \in DOMAIN _icuMessageInstanceMap : Len(_icuMessageInstanceMap[id]) = 2

(***************************************************************************)
(* C4, C7: resolving an instance id (getFormatted on a string that is one).*)
(***************************************************************************)
\* the string is the id of an instance the registry holds
Registered(s) ==
  /\ MESSAGE_INSTANCE_ID_REGEX(s)
  /\ IndexOf(s) < Len(MapGet(_icuMessageInstanceMap, RegexGroups(s).icuMessageId))

InstanceOf(s) ==
  MapGet(_icuMessageInstanceMap, RegexGroups(s).icuMessageId)[IndexOf(s) + 1]

\* the message the instance is formatted from in the locale: the catalog's,
\* else the one it was registered with
MessageIn(locale, icuMessageInstance) ==
  IF CatalogMessage(LOCALES[locale], icuMessageInstance.icuMessageId) # <<>>
    THEN CatalogMessage(LOCALES[locale], icuMessageInstance.icuMessageId)
    ELSE icuMessageInstance.icuMessage

\* the ids of the arguments of a message, those of its plural options too
RECURSIVE ArgIds(_)
RECURSIVE OptionArgIds(_)
ArgIds(message) ==
  IF message = <<>> THEN {}
  ELSE (IF Head(message).type = "argumentElement" /\ Head(message).id # ""
          THEN {Head(message).id} \cup OptionArgIds(Head(message).options)
          ELSE {})
       \cup ArgIds(Tail(message))

OptionArgIds(options) ==
  IF options = <<>> THEN {}
  ELSE ArgIds(Head(options).message) \cup OptionArgIds(Tail(options))

\* the ids of the arguments _preprocessMessageValues looks for: those of
\* the message's own elements
TopArgIds(message) ==
  {message[i].id : i \in {n \in 1..Len(message) :
                            message[n].type = "argumentElement" /\ message[n].id # ""}}

\* the values give every argument of the message a value
Supplied(message, values) ==
  \A id \in ArgIds(message) :
    HasKey(values, id) /\ Get(values, id).t # "undefined"

\* getFormatted was called, in a supported locale, with the id of a
\* registered instance
ResolvedRegistered ==
  /\ last.op = "getFormatted"
  /\ last.locale \in DOMAIN LOCALES
  /\ Registered(last.input)

C7_InvalidIdError ==
  ( /\ last.op = "getFormatted"
    /\ MESSAGE_INSTANCE_ID_REGEX(last.input)
    /\ ~Registered(last.input) )
  => last.error = "InvalidInstanceId"

(***************************************************************************)
(* C8, C9: replaceIcuMessageInstanceIds on a document.                     *)
(***************************************************************************)
\* the leaves of a document in the order of the walk, each with the property
\* names that lead to it; an object or array without properties is a leaf
RECURSIVE Leaves(_, _)
RECURSIVE LeavesFrom(_, _, _)
Leaves(node, path) ==
  IF node.t \in {"object", "array"} /\ node.e # <<>>
    THEN LeavesFrom(node, 1, path)
    ELSE <<[path |-> path, node |-> node]>>

LeavesFrom(node, i, path) ==
  IF i > Len(node.e) THEN <<>>
  ELSE Leaves(node.e[i].v, Append(path, node.e[i].k)) \o LeavesFrom(node, i + 1, path)

\* the leaf is a string value that is an instance id
IsToken(leaf) == leaf.node.t = "string" /\ isIcuMessage(leaf.node.s)

Tokens(leaves) == {i \in 1..Len(leaves) : IsToken(leaves[i])}

\* same property names everywhere, and the same value wherever the value was
\* not an instance id
OnlyTokensChanged(before, after) ==
  /\ Len(after) = Len(before)
  /\ \A i \in 1..Len(before) :
       /\ after[i].path = before[i].path
       /\ ~IsToken(before[i]) => after[i].node = before[i].node

\* every instance id has given way to its formatted string, and the report
\* has one entry for each
TokensReplaced(before, after, locale, report) ==
  /\ \A i \in Tokens(before) :
       after[i].node
         = StrNode(getFormatted(_icuMessageInstanceMap, before[i].node.s, locale).result)
  /\ Size(report) = Cardinality(Tokens(before))

\* the walk of a call, leaf by leaf
Walk(before, after) ==
  /\ OnlyTokensChanged(before, after)
  /\ last.error = "none" => TokensReplaced(before, after, last.locale, last.result)
  /\ Tokens(before) = {} =>
       /\ last.error = "none"
       /\ last.result = <<>>
       /\ last.inputObject = last.input

\* C8: replaceIcuMessageInstanceIds changes nothing of the document but the
\* string values that are instance ids: numbers, nulls, other strings and all
\* property names stay, each instance id is replaced once by its formatted
\* string, and a document without instance ids is left as it is with an
\* empty report.
C8_OnlyTokens ==
  last.op = "replace" => Walk(Leaves(last.input, <<>>), Leaves(last.inputObject, <<>>))

\* a document with one instance id among its values has been walked
C8_Witness ==
  /\ last.op = "replace" /\ last.error = "none"
  /\ Cardinality(Tokens(Leaves(last.input, <<>>))) = 1
  /\ last.inputObject # last.input
  /\ Size(last.result) = 1

\* the report entries of an id whose path is one of the two
EntriesAt(entries, p, q) ==
  {n \in 1..Len(entries) : entries[n].path \in {p.pathAsString, q.pathAsString}}

\* the occurrences i and j of one instance id: two entries under its key, one
\* for each path, and the same formatted string at both
TwoEntries(before, after, i, j, entries) ==
  /\ Len(entries) = 2
  /\ _formatPathAsString(before[i].path).pathAsString
       # _formatPathAsString(before[j].path).pathAsString
  /\ Cardinality(EntriesAt(entries, _formatPathAsString(before[i].path),
                           _formatPathAsString(before[j].path))) = 2
  /\ \E n \in 1..2 : entries[n].path = _formatPathAsString(before[i].path).pathAsString
  /\ \E n \in 1..2 : entries[n].path = _formatPathAsString(before[j].path).pathAsString
  /\ after[i].node = after[j].node
  /\ after[i].node.t = "string" /\ after[i].node.s # before[i].node.s

SameTokenTwice(before, after, report) ==
  \A i \in Tokens(before), j \in Tokens(before) :
    (i < j /\ before[i].node = before[j].node) =>
      TwoEntries(before, after, i, j,
                 MapGet(report, RegexGroups(before[i].node.s).icuMessageId))

\* C9: when one instance id is the value at two paths of the document, the
\* report has exactly two entries under its key, one for each path, and both
\* values are replaced by the same formatted string.
C9_TwoPaths ==
  (last.op = "replace" /\ last.error = "none") =>
    SameTokenTwice(Leaves(last.input, <<>>), Leaves(last.inputObject, <<>>), last.result)

\* a document with one instance id at two paths has been walked
C9_Witness ==
  /\ last.op = "replace" /\ last.error = "none"
  /\ Cardinality(Tokens(Leaves(last.input, <<>>))) = 2
  /\ \E id \in DOMAIN last.result : Len(last.result[id]) = 2 /\ last.result[id][1].withValues
  /\ Leaves(last.input, <<>>)[1].node = Leaves(last.input, <<>>)[4].node


(***************************************************************************)
(* C11: the id function called with a text that is declared nowhere.       *)
(***************************************************************************)
\* the text is the text of a name of the shared strings the producer does
\* not redeclare, or of a name of the producer's own strings
DeclaredBy(p, icuMessage) ==
  \/ \E i \in 1..Len(Producers[p].fileStrings) :
       Producers[p].fileStrings[i].message = icuMessage
  \/ \E i \in 1..Len(UIStrings) :
       /\ UIStrings[i].message = icuMessage
       /\ \A j \in 1..Len(Producers[p].fileStrings) :
            Producers[p].fileStrings[j].key # UIStrings[i].key

\* a call of an id function with an undeclared text throws 'Could not
\* locate', returns no token and leaves the registry as it was
UndeclaredThrows ==
  (last.op = "idle" /\ last'.op = "register"
     /\ ~DeclaredBy(last'.producer, last'.icuMessage))
  => /\ last'.error = "CouldNotLocate"
     /\ last'.result = <<>>
     /\ _icuMessageInstanceMap' = _icuMessageInstanceMap

\* C11: calling the id function with a text that equals no text of the
\* merged (shared and producer) declarations fails with the 'Could not
\* locate' error, returns no token and leaves the registry unchanged.
C11_CouldNotLocate == [][UndeclaredThrows]_vars

\* an undeclared text was refused by a registry that holds instances; the
\* shared text the producer redeclared is refused too
C11_Witness ==
  /\ last.op = "register" /\ last.error = "CouldNotLocate"
  /\ last.icuMessage = UrlMessage /\ last.producer = 2
  /\ _icuMessageInstanceMap # <<>>


(***************************************************************************)
(* C12, C13: lookupLocale.                                                 *)
(***************************************************************************)
\* C12 as the spec states it: lookupLocale never fails: for every tag,
\* absent, well-formed or malformed, it returns a supported locale.
C12_NeverFails ==
  last.op = "lookupLocale" => (last.error = "none" /\ last.result \in DOMAIN LOCALES)

\* the tag names a supported locale
Supported(tag) == tag # <<>> /\ JoinTag(tag) \in DOMAIN LOCALES

\* the lengths of the proper prefixes of the tag that are supported
SupportedPrefixes(tag) == {n \in 1..(Len(tag) - 1) : Supported(SubSeq(tag, 1, n))}

\* the locale of a tag, read in canonical case: itself when supported, else
\* its longest supported proper prefix, else 'en'
ClosestTo(tag, result) ==
  /\ Supported(tag) => result = JoinTag(tag)
  /\ (~Supported(tag) /\ SupportedPrefixes(tag) # {}) =>
       \E n \in SupportedPrefixes(tag) :
         /\ result = JoinTag(SubSeq(tag, 1, n))
         /\ \A m \in SupportedPrefixes(tag) : m <= n
  /\ (~Supported(tag) /\ SupportedPrefixes(tag) = {}) => result = "en"
  /\ result = "en" =>
       \/ ~Supported(tag) /\ SupportedPrefixes(tag) = {}
       \/ tag[1] = "en"

\* C13: lookupLocale returns the requested tag when it is supported, else
\* its longest supported proper prefix (de-CH-1996 gives de-CH, not de), and
\* 'en' only when neither the tag nor a prefix of it is supported; a
\* well-formed tag, and no tag, always get a locale.
C13_Closest ==
  last.op = "lookupLocale" =>
    /\ (last.locale = <<>> \/ WellFormed(last.locale)) => last.error = "none"
    /\ last.error = "none" => ClosestTo(Canonical(last.locale), last.result)

\* de-CH-1996 was looked up and gave de-CH
C13_Witness ==
  /\ last.op = "lookupLocale"
  /\ last.locale = <<"de", "CH", "1996">>
  /\ last.error = "none" /\ last.result = "de-CH"


(***************************************************************************)
(* C14, C15: _formatIcuMessage.                                            *)
(***************************************************************************)
\* the message a call of the formatter formats: the catalog's for the id,
\* else the backup; <<>> when there is neither
MessageFor(locale, icuMessageId, uiStringMessage) ==
  IF CatalogMessage(LOCALES[locale], icuMessageId) # <<>>
    THEN CatalogMessage(LOCALES[locale], icuMessageId)
    ELSE uiStringMessage

\* the formatter was called in a supported locale and has a message
Formatting ==
  /\ last.op = "format"
  /\ last.locale \in DOMAIN LOCALES
  /\ MessageFor(last.locale, last.icuMessageId, last.uiStringMessage) # <<>>

\* C14 as the spec states it: formatting fails with the missing-value error
\* whenever a placeholder anywhere in the message, one inside a plural
\* option included, has no entry in the values (no values being no entries).
C14_AnyMissing ==
  ( /\ Formatting
    /\ \E id \in ArgIds(MessageFor(last.locale, last.icuMessageId, last.uiStringMessage)) :
         ~HasKey(last.values, id) )
  => last.error = "MissingValue"


\* the catalog of the call's locale has a message for the call's id
InCatalog == CatalogMessage(LOCALES[last.locale], last.icuMessageId) # <<>>

\* _formatIcuMessage: unsupported locale first, then the catalog's message,
\* then the backup, and 'not found' exactly when there is neither
FormatOrder ==
  /\ last.locale \notin DOMAIN LOCALES => last.error = "UnsupportedLocale"
  /\ last.locale \in DOMAIN LOCALES =>
       /\ last.error # "UnsupportedLocale"
       /\ last.error = "MessageNotFound" <=> (~InCatalog /\ last.uiStringMessage = <<>>)
       /\ (last.error = "none" /\ InCatalog) =>
            last.icuMessage = CatalogMessage(LOCALES[last.locale], last.icuMessageId)
       /\ (last.error = "none" /\ ~InCatalog) => last.icuMessage = last.uiStringMessage

\* getFormattedFromIdAndValues with an id of the shape "a | b": the same,
\* without a backup
FromIdOrder ==
  /\ last.locale \notin DOMAIN LOCALES => last.error = "UnsupportedLocale"
  /\ last.locale \in DOMAIN LOCALES =>
       /\ last.error # "UnsupportedLocale"
       /\ last.error = "MessageNotFound" <=> ~InCatalog

\* C15: the formatter takes the catalog's message for the id when the
\* locale's catalog has one, else the backup message it was given, and fails
\* with 'ICU message not found' exactly when there is neither, as is always
\* so for an id the catalog lacks when getFormattedFromIdAndValues made the
\* call; it fails with 'Unsupported locale' before any lookup when the locale
\* has no catalog.
C15_Order ==
  /\ last.op = "format" => FormatOrder
  /\ (last.op = "formatFromId" /\ icuMessageIdRegex(last.icuMessageId)) => FromIdOrder

\* a message the German catalog lacks was formatted from its backup
C15_Witness ==
  /\ last.op = "format" /\ last.locale = "de" /\ last.error = "none"
  /\ ~InCatalog
  /\ last.icuMessage = Items
  /\ last.formattedString = <<"5", SP, "items">>


(***************************************************************************)
(* C16: _preprocessMessageValues on one number.                            *)
(***************************************************************************)
\* the argument elements of a message, those of its plural options too
RECURSIVE Args(_)
RECURSIVE OptionArgs(_)
Args(message) ==
  IF message = <<>> THEN {}
  ELSE (IF Head(message).type = "argumentElement"
          THEN {[id |-> Head(message).id, style |-> Head(message).style]}
                 \cup OptionArgs(Head(message).options)
          ELSE {})
       \cup Args(Tail(message))

OptionArgs(options) ==
  IF options = <<>> THEN {}
  ELSE Args(Head(options).message) \cup OptionArgs(Tail(options))

\* r is the multiple of 10 nearest to v, the upper one of two
NearestTen(r, v) ==
  /\ r.t = "number" /\ r.den = 1 /\ r.num % 10 = 0
  /\ r.num - 5 <= v /\ v < r.num + 5

\* r is k/10 for the integer k nearest to v/100, the upper one of two
Seconds(r, v) ==
  /\ r.t = "number"
  /\ \E k \in 0..(v \div 100 + 1) :
       /\ r.num * 10 = k * r.den
       /\ 100 * k - 50 <= v /\ v < 100 * k + 50

\* r is v/1024
Kilobytes(r, v) == r.t = "number" /\ r.num * 1024 = v * r.den

\* what the rules make of the number v of a placeholder of this style
Ruled(arg, r, v) ==
  CASE arg.style = "milliseconds" -> NearestTen(r, v)
    [] arg.style = "seconds" /\ arg.id = "timeInMs" -> Seconds(r, v)
    [] arg.style = "bytes" -> Kilobytes(r, v)
    [] OTHER -> r.t = "number" /\ r.num = v * r.den

\* the values were preprocessed for a message, each a number
Numbers ==
  /\ last.op = "preprocess" /\ last.error = "none"
  /\ last.values.t = "object"
  /\ \A i \in 1..Len(last.values.e) :
       last.values.e[i].v.t = "number" /\ last.values.e[i].v.den = 1

\* C16 as the spec states it: for every number v, a placeholder of style
\* milliseconds gets the nearest multiple of 10, one of style seconds named
\* timeInMs gets round(v/100)/10, one of style bytes gets v/1024, and every
\* other placeholder keeps v.
C16_Rules ==
  Numbers =>
    \A arg \in Args(last.icuMessage) :
      HasKey(last.values, arg.id) =>
        Ruled(arg, Get(last.result, arg.id), Get(last.values, arg.id).num)

\* the same, of the messages whose placeholders are elements of the message
\* itself, none of them twice
C16_RulesOnce ==
  ( /\ Numbers
    /\ \A i \in 1..Len(last.icuMessage) : last.icuMessage[i].options = <<>>
    /\ \A i \in 1..Len(last.icuMessage), j \in 1..Len(last.icuMessage) :
         (i < j /\ last.icuMessage[i].type = "argumentElement")
           => last.icuMessage[i].id # last.icuMessage[j].id )
  => \A arg \in Args(last.icuMessage) :
       HasKey(last.values, arg.id) =>
         Ruled(arg, Get(last.result, arg.id), Get(last.values, arg.id).num)


(***************************************************************************)
(* C17: bakePlaceholders.                                                  *)
(***************************************************************************)
\* the first match of /\$\w+\$/g in s at or after i, as <<start, end>>
FirstDollarWord(s, i) ==
  CHOOSE m \in (1..Len(s)) \X (1..Len(s)) :
    /\ m[1] >= i /\ DollarWord(s, m[1], m[2])
    /\ \A a \in i..(m[1] - 1), b \in 1..Len(s) : ~DollarWord(s, a, b)

NameAt(s, m) == SubSeq(s, m[1] + 1, m[2] - 1)

\* the names of the matches of /\$\w+\$/g in s at or after i
RECURSIVE NamesFrom(_, _)
NamesFrom(s, i) ==
  IF ~\E a \in i..Len(s), b \in 1..Len(s) : DollarWord(s, a, b) THEN {}
  ELSE {NameAt(s, FirstDollarWord(s, i))} \cup NamesFrom(s, FirstDollarWord(s, i)[2] + 1)

EntryNames(defn) ==
  {defn.placeholders.entries[i].placeholder : i \in 1..Len(defn.placeholders.entries)}

\* a $placeholder$ of the message has no entry
LacksEntry(defn) == NamesFrom(defn.message, 1) \ EntryNames(defn) # {}

\* an entry's $name$ does not occur in the message
LacksPlaceholder(defn) ==
  \E n \in EntryNames(defn) :
    \A i \in 1..Len(defn.message) : ~HasAt(defn.message, i, <<"$">> \o n \o <<"$">>)

\* every key of the input is in the output, and no $word$ is left
BakedAll(messages, bakedMessages) ==
  /\ {messages[i].key : i \in 1..Len(messages)}
       = {bakedMessages[i].key : i \in 1..Len(bakedMessages)}
  /\ \A i \in 1..Len(bakedMessages) :
       \A a \in 1..Len(bakedMessages[i].message), b \in 1..Len(bakedMessages[i].message) :
         ~DollarWord(bakedMessages[i].message, a, b)

\* C17: bakePlaceholders throws when a message holds a $placeholder$ without
\* an entry in its placeholders, and when placeholders holds an entry whose
\* $name$ is not in the message; when it returns, every key of the input is
\* in the output and no output message holds a $word$.
C17_Baked ==
  last.op = "bake" =>
    /\ (\E i \in 1..Len(last.messages) : LacksEntry(last.messages[i]))
         => last.error # "none"
    /\ (\E i \in 1..Len(last.messages) : LacksPlaceholder(last.messages[i]))
         => last.error # "none"
    /\ last.error = "none" => BakedAll(last.messages, last.bakedMessages)

\* C17, its three parts apart
C17_LacksEntryThrows ==
  (last.op = "bake" /\ \E i \in 1..Len(last.messages) : LacksEntry(last.messages[i]))
    => last.error # "none"
C17_LacksPlaceholderThrows ==
  (last.op = "bake" /\ \E i \in 1..Len(last.messages) : LacksPlaceholder(last.messages[i]))
    => last.error # "none"
C17_ReturnsBaked ==
  (last.op = "bake" /\ last.error = "none")
    => BakedAll(last.messages, last.bakedMessages)


(***************************************************************************)
(* C18: the message key of a token.                                        *)
(***************************************************************************)
OwnName(p, k) ==
  \E i \in 1..Len(Producers[p].fileStrings) : Producers[p].fileStrings[i].key = k

SharedName(k) == \E i \in 1..Len(UIStrings) : UIStrings[i].key = k

\* the names producer p may use: the shared ones as declared, then its own
\* new ones as declared
IsNew(s) == ~SharedName(s.key)
NamesOf(p) ==
  [i \in 1..Len(UIStrings) |-> UIStrings[i].key]
    \o [i \in 1..Len(SelectSeq(Producers[p].fileStrings, IsNew)) |->
          SelectSeq(Producers[p].fileStrings, IsNew)[i].key]

\* the text of name k for producer p: its own before the shared one
TemplateOf(p, k) ==
  IF OwnName(p, k)
    THEN Producers[p].fileStrings[
           CHOOSE i \in 1..Len(Producers[p].fileStrings) :
             Producers[p].fileStrings[i].key = k].message
    ELSE UIStrings[CHOOSE i \in 1..Len(UIStrings) : UIStrings[i].key = k].message

\* the first of p's names whose text is icuMessage is the n-th
FirstNamed(p, icuMessage, n) ==
  /\ TemplateOf(p, NamesOf(p)[n]) = icuMessage
  /\ \A m \in 1..(n - 1) : TemplateOf(p, NamesOf(p)[m]) # icuMessage

\* the file of name k: the producer's for a name it declares, the core's
\* own for a name that is only shared
FileOf(p, k) == IF OwnName(p, k) THEN Producers[p].filename ELSE ThisFilename

Slashed(f) == [i \in 1..Len(f) |-> IF f[i] = "\\" THEN "/" ELSE f[i]]

StartsWith(s, t) == Len(s) >= Len(t) /\ SubSeq(s, 1, Len(t)) = t

\* C18: the token an id function returns carries the message key
\* `<path> | <name>`, where name is the first of the names (the shared ones,
\* then the producer's new ones; the producer's text for a name both
\* declare) whose text is the supplied text, and path is the forward-slash
\* path of the producer's file when the producer declares that name and of
\* the core's own file when the name is only shared.
C18_MessageKey ==
  (last.op = "register" /\ last.error = "none") =>
    /\ StartsWith(last.result, last.icuMessageId \o HashSep)
    /\ \E n \in 1..Len(NamesOf(last.producer)) :
         /\ FirstNamed(last.producer, last.icuMessage, n)
         /\ last.icuMessageId
              = Slashed(FileOf(last.producer, NamesOf(last.producer)[n]))
                  \o <<" ", "|", " ">> \o NamesOf(last.producer)[n]

\* C18 as stated: the path is always the one of the registering file
C18_RegisteringFile ==
  (last.op = "register" /\ last.error = "none") =>
    /\ StartsWith(last.result, last.icuMessageId \o HashSep)
    /\ \E n \in 1..Len(NamesOf(last.producer)) :
         /\ TemplateOf(last.producer, NamesOf(last.producer)[n]) = last.icuMessage
         /\ last.icuMessageId
              = Slashed(Producers[last.producer].filename)
                  \o <<" ", "|", " ">> \o NamesOf(last.producer)[n]

\* the producer whose path has backslashes registered the text it gives a
\* shared name, after a shared text was registered under the core's file
C18_Witness ==
  /\ last.op = "register" /\ last.error = "none"
  /\ last.producer = 2 /\ last.icuMessage = Address
  /\ last.icuMessageId
       = <<"lighthouse-core", "/", "audits", "/", "a.js", " ", "|", " ", "columnURL">>
  /\ (ThisFilename \o <<" ", "|", " ", "ms">>) \in DOMAIN _icuMessageInstanceMap


(***************************************************************************)
(* C19: resolution reads the registry only.                                *)
(***************************************************************************)
\* a call of getFormatted or replaceIcuMessageInstanceIds, ended either way,
\* leaves the registry, the stored values with it, as it was
ReadOnly ==
  (last.op = "idle" /\ last'.op \in {"getFormatted", "replace"})
    => _icuMessageInstanceMap' = _icuMessageInstanceMap

\* getFormatted of the same string in the same locale, called again, ends the
\* same way with the same string
SameAgain ==
  (last.op = "idle" /\ last'.op = "getFormatted")
    => getFormatted(_icuMessageInstanceMap', last'.input, last'.locale)
         = [error |-> last'.error, result |-> last'.result]

\* C19: getFormatted and replaceIcuMessageInstanceIds, whether they succeed
\* or fail, leave the registry unchanged, the stored values of the resolved
\* instance included, so resolving the same token again for the same locale
\* gives the same formatted string.
C19_ReadOnly == [][ReadOnly /\ SameAgain]_vars

\* a token whose stored value the milliseconds rule rounds was resolved, and
\* the registry still holds the value as registered
C19_Witness ==
  /\ last.op = "getFormatted" /\ last.error = "none"
  /\ last.input = EncodeInstanceId(IdMs, 0)
  /\ MapGet(_icuMessageInstanceMap, IdMs) # <<>>
  /\ MapGet(_icuMessageInstanceMap, IdMs)[1].values = Obj(<<Prop("timeInMs", Num(1234))>>)


(***************************************************************************)
(* C20: the entries of the report.                                         *)
(***************************************************************************)
\* the entry of the token at the leaf: the path alone for values that are
\* undefined or null, the stored values with the path for an object
EntryOf(leaf) ==
  IF InstanceOf(leaf.node.s).values.t = "object"
    THEN [withValues |-> TRUE, values |-> InstanceOf(leaf.node.s).values,
          path |-> _formatPathAsString(leaf.path).pathAsString]
    ELSE [withValues |-> FALSE, values |-> Undefined,
          path |-> _formatPathAsString(leaf.path).pathAsString]

\* the entry of the token at the leaf when all values but undefined are kept
EntryOfPresent(leaf) ==
  IF InstanceOf(leaf.node.s).values.t # "undefined"
    THEN [withValues |-> TRUE, values |-> InstanceOf(leaf.node.s).values,
          path |-> _formatPathAsString(leaf.path).pathAsString]
    ELSE [withValues |-> FALSE, values |-> Undefined,
          path |-> _formatPathAsString(leaf.path).pathAsString]

KeyOfToken(leaf) == RegexGroups(leaf.node.s).icuMessageId

\* the entries of the tokens of the key id, in the order of the walk
RECURSIVE EntriesOf(_, _)
EntriesOf(leaves, id) ==
  IF leaves = <<>> THEN <<>>
  ELSE (IF IsToken(Head(leaves)) /\ KeyOfToken(Head(leaves)) = id
          THEN <<EntryOf(Head(leaves))>> ELSE <<>>)
         \o EntriesOf(Tail(leaves), id)

RECURSIVE EntriesOfPresent(_, _)
EntriesOfPresent(leaves, id) ==
  IF leaves = <<>> THEN <<>>
  ELSE (IF IsToken(Head(leaves)) /\ KeyOfToken(Head(leaves)) = id
          THEN <<EntryOfPresent(Head(leaves))>> ELSE <<>>)
         \o EntriesOfPresent(Tail(leaves), id)

TokenKeys(leaves) == {KeyOfToken(leaves[i]) : i \in Tokens(leaves)}

\* C20: for every token replaceIcuMessageInstanceIds replaces, the report
\* has one entry under the instance's message key, in the order of the
\* depth-first walk: {values, path} with the stored values when they are an
\* object (an empty one as well), and the path alone when they are
\* undefined or null.
C20_Entries ==
  (last.op = "replace" /\ last.error = "none") =>
    /\ DOMAIN last.result = TokenKeys(Leaves(last.input, <<>>))
    /\ \A id \in DOMAIN last.result :
         last.result[id] = EntriesOf(Leaves(last.input, <<>>), id)

\* C20 as stated: every values but undefined is kept with the path
C20_PresentEntries ==
  (last.op = "replace" /\ last.error = "none") =>
    /\ DOMAIN last.result = TokenKeys(Leaves(last.input, <<>>))
    /\ \A id \in DOMAIN last.result :
         last.result[id] = EntriesOfPresent(Leaves(last.input, <<>>), id)

\* two tokens of one key were replaced: the first of an instance with an
\* empty object, the second of an instance with null
C20_Witness ==
  /\ last.op = "replace" /\ last.error = "none"
  /\ IdTitle \in DOMAIN last.result
  /\ Len(last.result[IdTitle]) = 2
  /\ last.result[IdTitle][1].withValues /\ last.result[IdTitle][1].values = Obj(<<>>)
  /\ ~last.result[IdTitle][2].withValues
  /\ MapGet(_icuMessageInstanceMap, IdTitle)[2].values = Null


(***************************************************************************)
(* C21: _formatPathAsString.                                               *)
(***************************************************************************)
\* the property is a run of one or more ASCII letters
Letters(property) ==
  property # <<>> /\ \A i \in 1..Len(property) : property[i] \in LetterAtoms

\* ']', a quote or white space
Disallowed(c) == c \in {"]", "\"", "'", " ", "\n", "\r", "\t", "NBSP", "LS", "PS"}

\* the property cannot be written: it is no run of letters and holds a
\* disallowed character
Unrepresentable(property) ==
  ~Letters(property) /\ \E i \in 1..Len(property) : Disallowed(property[i])

\* the i-th property as it is written: a run of letters after a '.' unless
\* it is the first, any other between brackets
Written(pathInLHR, i) ==
  IF Letters(pathInLHR[i])
    THEN (IF i > 1 THEN <<".">> ELSE <<>>) \o pathInLHR[i]
    ELSE <<"[">> \o pathInLHR[i] \o <<"]">>

\* the properties from the i-th on, written one after the other
RECURSIVE WrittenFrom(_, _)
WrittenFrom(pathInLHR, i) ==
  IF i > Len(pathInLHR) THEN <<>>
  ELSE Written(pathInLHR, i) \o WrittenFrom(pathInLHR, i + 1)

\* C21: _formatPathAsString joins the properties that are runs of letters
\* with '.' (none leading) and writes every other property between [ ] with
\* nothing before the bracket; it throws 'Cannot handle' exactly when a
\* property that is no run of letters holds ']', a quote or white space.
C21_Path ==
  last.op = "formatPath" =>
    /\ last.error = "CannotHandle"
         <=> \E i \in 1..Len(last.pathInLHR) : Unrepresentable(last.pathInLHR[i])
    /\ last.error \in {"none", "CannotHandle"}
    /\ last.error = "none" => last.pathAsString = WrittenFrom(last.pathInLHR, 1)

\* an array index between two runs of letters was written
C21_Witness ==
  /\ last.op = "formatPath" /\ last.error = "none"
  /\ last.pathInLHR = << <<"title">>, <<"0">>, <<"a", "Title">> >>
  /\ last.pathAsString = <<"title", "[", "0", "]", ".", "a", "Title">>


(***************************************************************************)
(* C22: a walk that fails.                                                 *)
(***************************************************************************)
\* the token at the leaf cannot be replaced: it does not resolve in the
\* locale, or its path cannot be written
Fails(leaf, locale) ==
  \/ getFormatted(_icuMessageInstanceMap, leaf.node.s, locale).error # "none"
  \/ _formatPathAsString(leaf.path).error # "none"

\* the walk stopped at the token f: the tokens before it are replaced and
\* reported, f and every value after it are as they were, and the report
\* has no entry of f
StoppedAt(before, after, f, locale, report) ==
  /\ Fails(before[f], locale)
  /\ \A i \in Tokens(before) : i < f => ~Fails(before[i], locale)
  /\ Len(after) = Len(before)
  /\ \A i \in 1..Len(before) :
       after[i].node
         = IF i < f /\ IsToken(before[i])
             THEN StrNode(getFormatted(_icuMessageInstanceMap, before[i].node.s, locale).result)
             ELSE before[i].node
  /\ DOMAIN report = TokenKeys(SubSeq(before, 1, f - 1))
  /\ \A id \in DOMAIN report : report[id] = EntriesOf(SubSeq(before, 1, f - 1), id)

\* C22: when replaceIcuMessageInstanceIds fails at a token, the value of
\* that token in the document is still the token and the report has no
\* entry for it, every token visited before it stays replaced by its
\* formatted string, and no later value has been touched.
C22_NoRollback ==
  (last.op = "replace" /\ last.error # "none") =>
    \E f \in Tokens(Leaves(last.input, <<>>)) :
      StoppedAt(Leaves(last.input, <<>>), Leaves(last.inputObject, <<>>), f,
                last.locale, last.icuMessagePaths)

\* the walk replaced the first token, resolved the second and failed at its
\* path; a third token follows
C22_Witness ==
  /\ last.op = "replace" /\ last.error = "CannotHandle"
  /\ Tokens(Leaves(last.input, <<>>)) = {1, 2, 3}
  /\ Leaves(last.inputObject, <<>>)[1].node # Leaves(last.input, <<>>)[1].node
  /\ Leaves(last.inputObject, <<>>)[2].node = Leaves(last.input, <<>>)[2].node
  /\ Leaves(last.inputObject, <<>>)[3].node = Leaves(last.input, <<>>)[3].node
  /\ Size(last.icuMessagePaths) = 1

====
